---- MODULE Spec2Model ----
(***************************************************************************)
(* Model of the knowledge-spine query engine (src/src/lib/query-engine.ts) *)
(* and of its HTTP boundary (src/src/app/api/query/route.ts).              *)
(*                                                                         *)
(* Representation of strings.  A string is a sequence of tokens; a token   *)
(* is a word ("nightlife"), a separator (" ", "-", ", ") or a whole fixed  *)
(* phrase the program only copies around ("Core strengths: ").  substring  *)
(* search (String.prototype.includes) is contiguous-subsequence search on  *)
(* tokens, toLowerCase maps every token to its lower-case form, and        *)
(* replace(/[^a-z0-9]+/g, "") drops the separator tokens.                  *)
(* Reliabilities are percentages (0.92 is 92) and dates are day numbers.   *)
(***************************************************************************)
EXTENDS Integers, Sequences, FiniteSets, TLC

VARIABLES
    pc,           \* position of the request in POST / runKnowledgeSpineQuery
    payload,      \* the request body as received by POST
    hasApiKey,    \* !!process.env.OPENAI_API_KEY
    input,        \* the QueryInput returned by validateInput, or NoValue
    thrown,       \* the error thrown inside the try block of POST, or NoError
    hotel,        \* hotel_amanzoe.json once read, or NoValue
    allSources,   \* sources.json once read
    allChunks,    \* unstructured_chunks.json once read
    queryPlan,    \* result of buildQueryPlan, or NoValue
    semantic,     \* section key -> retrieveSemanticChunks result
    promoConflicts, \* result of collectPromoSemanticConflicts
    sections,     \* responseDraft.sections: section key -> section
    llmOverrides, \* the override set returned by maybeLlmNarrativeOverride
    trust,        \* responseDraft.trust
    http,         \* the NextResponse sent by POST, or NoValue
    dataReads,    \* number of readJson rounds performed
    llmCalls,     \* number of fetch calls to the narrative service
    llmOutcome,   \* what the narrative service answered, or NoValue
    draftContent  \* content of each section as the builders drafted it

vars == << pc, payload, hasApiKey, input, thrown, hotel, allSources,
           allChunks, queryPlan, semantic, promoConflicts, sections,
           llmOverrides, trust, http, dataReads, llmCalls, llmOutcome,
           draftContent >>

-----------------------------------------------------------------------------
(* Bounds of the exploration *)

MaxChunks == 4        \* longest chunk pool explored by the retrieval runs
MaxCitations == 12    \* largest citation count the score is evaluated for

-----------------------------------------------------------------------------
(* Generic helpers *)

NoValue == [none |-> TRUE]
NoError == [none |-> TRUE]

Min(a, b) == IF a <= b THEN a ELSE b
Max(a, b) == IF a >= b THEN a ELSE b

Range(s) == { s[i] : i \in DOMAIN s }

RECURSIVE FlatMap(_, _)
FlatMap(F(_), s) == IF s = << >> THEN << >> ELSE F(Head(s)) \o FlatMap(F, Tail(s))

RECURSIVE SumSeq(_)
SumSeq(s) == IF s = << >> THEN 0 ELSE Head(s) + SumSeq(Tail(s))

\* sequences of length 0..n over S without repeated elements
RECURSIVE SeqsNoRepeat(_, _)
SeqsNoRepeat(S, n) ==
    IF n = 0 THEN { << >> }
    ELSE LET shorter == SeqsNoRepeat(S, n - 1)
         IN shorter \cup
            UNION { { Append(s, x) : x \in S \ Range(s) } :
                    s \in { t \in shorter : Len(t) = n - 1 } }

\* Array.from(new Set(arr)): duplicates removed, first occurrence kept
RECURSIVE uniqAcc(_, _)
uniqAcc(arr, acc) ==
    IF arr = << >> THEN acc
    ELSE IF Head(arr) \in Range(acc) THEN uniqAcc(Tail(arr), acc)
    ELSE uniqAcc(Tail(arr), Append(acc, Head(arr)))

uniq(arr) == uniqAcc(arr, << >>)

-----------------------------------------------------------------------------
(* Strings as token sequences *)

Separators == { " ", "-", ", ", "; ", "(", ")", ".", "/", ": ", "\n", "- " }

\* the lower-case form of a token (String.prototype.toLowerCase)
LowerTok(t) ==
    CASE t = "Amanzoe" -> "amanzoe"
      [] t = "Peloponnese" -> "peloponnese"
      [] t = "Honeymoon" -> "honeymoon"
      [] t = "Solo" -> "solo"
      [] t = "Wellness" -> "wellness"
      [] t = "Multi" -> "multi"
      [] t = "Family" -> "family"
      [] t = "Corporate" -> "corporate"
      [] t = "Executive" -> "executive"
      [] t = "Late" -> "late"
      [] t = "September" -> "september"
      [] t = "Peak" -> "peak"
      [] t = "Summer" -> "summer"
      [] t = "Jul" -> "jul"
      [] t = "Aug" -> "aug"
      [] t = "Shoulder" -> "shoulder"
      [] t = "Season" -> "season"
      [] t = "Apr" -> "apr"
      [] t = "May" -> "may"
      [] t = "Low" -> "low"
      [] t = "Nov" -> "nov"
      [] t = "Mar" -> "mar"
      [] t = "Reservations" -> "reservations"
      [] t = "Marketing" -> "marketing"
      [] t = "Destination" -> "destination"
      [] t = "Specialist" -> "specialist"
      [] t = "Finance" -> "finance"
      [] t = "Nightlife" -> "nightlife"
      [] t = "Stack" -> "stack"
      [] t = "Early" -> "early"
      [] t = "Booking" -> "booking"
      [] t = "Privacy" -> "privacy"
      [] t = "Transfer" -> "transfer"
      [] OTHER -> t

toLowerCase(s) == [ i \in DOMAIN s |-> LowerTok(s[i]) ]

\* s.includes(sub)
Includes(s, sub) ==
    \E i \in 0..(Len(s) - Len(sub)) :
        \A j \in 1..Len(sub) : s[i + j] = sub[j]

\* s.replace(/[^a-z0-9]+/g, ""), on a lower-cased string
StripNonAlnum(s) == SelectSeq(s, LAMBDA t : t \notin Separators)

\* s.trim() is empty
IsBlank(s) == \A i \in DOMAIN s : s[i] = " "

\* arr.join(sep), for an array of strings
RECURSIVE Join(_, _)
Join(arr, sep) ==
    IF arr = << >> THEN << >>
    ELSE IF Len(arr) = 1 THEN arr[1]
    ELSE arr[1] \o << sep >> \o Join(Tail(arr), sep)

-----------------------------------------------------------------------------
(* Static tables of the engine *)

travelerTypes == << "honeymoon", "multi_gen_family", "solo_wellness", "corporate_executive" >>
seasonTypes == << "late_september", "peak_summer", "shoulder_apr_may", "low_nov_mar" >>
roleTypes == << "reservations", "marketing", "destination_specialist", "finance" >>

TextSectionKeys == << "positioning", "travelerFit", "risks", "ujvPov" >>
SectionKeyOrder == << "positioning", "travelerFit", "risks", "promotions", "ujvPov" >>

travelerLabels ==
    [ t \in Range(travelerTypes) |->
        CASE t = "honeymoon" -> << "Honeymoon" >>
          [] t = "multi_gen_family" -> << "Multi", "-", "gen", " ", "Family" >>
          [] t = "solo_wellness" -> << "Solo", " ", "/", " ", "Wellness" >>
          [] t = "corporate_executive" -> << "Corporate", " ", "/", " ", "Executive" >> ]

seasonLabels ==
    [ t \in Range(seasonTypes) |->
        CASE t = "late_september" -> << "Late", " ", "September" >>
          [] t = "peak_summer" -> << "Peak", " ", "Summer", " ", "(", "Jul", "-", "Aug", ")" >>
          [] t = "shoulder_apr_may" ->
                << "Shoulder", " ", "Season", " ", "(", "Apr", "-", "May", ")" >>
          [] t = "low_nov_mar" -> << "Low", " ", "(", "Nov", "-", "Mar", ")" >> ]

roleLabels ==
    [ t \in Range(roleTypes) |->
        CASE t = "reservations" -> << "Reservations" >>
          [] t = "marketing" -> << "Marketing" >>
          [] t = "destination_specialist" -> << "Destination", " ", "Specialist" >>
          [] t = "finance" -> << "Finance" >> ]

sectionKeywords ==
    [ k \in Range(SectionKeyOrder) |->
        CASE k = "positioning" ->
                << << "privacy" >>, << "romantic" >>, << "service" >>, << "design" >>,
                   << "nightlife" >> >>
          [] k = "travelerFit" ->
                << << "traveler" >>, << "fit" >>, << "honeymoon" >>, << "family" >>,
                   << "wellness" >>, << "executive" >> >>
          [] k = "risks" ->
                << << "risk" >>, << "caveat" >>, << "transfer" >>, << "logistics" >>,
                   << "nightlife" >> >>
          [] k = "promotions" ->
                << << "promotion" >>, << "discount" >>, << "offer" >>, << "stack" >>,
                   << "combinable" >> >>
          [] k = "ujvPov" ->
                << << "talk", " ", "track" >>, << "position" >>, << "qualify" >>,
                   << "value", " ", "drivers" >> >> ]

unstructuredSourceTypes == { "site_visit", "post_trip_feedback" }

\* the day number of new Date()
Now == 1000

-----------------------------------------------------------------------------
(* JSON values of a request body, and validateInput *)

JStr(x) == [ t |-> "string", s |-> x, b |-> FALSE ]
JBool(x) == [ t |-> "boolean", s |-> "", b |-> x ]
JUndefined == [ t |-> "undefined", s |-> "", b |-> FALSE ]
JNumber == [ t |-> "number", s |-> "", b |-> FALSE ]

BodyFields == { "hotelId", "travelerType", "season", "role", "includeRisks",
                "includePromotions", "includeUjvPov", "useLLM" }

\* an Error: message, and the status property if one was attached
MkError(msg) == [ none |-> FALSE, message |-> msg, hasStatus |-> FALSE, status |-> 0 ]
WithStatus(e, st) == [ e EXCEPT !.hasStatus = TRUE, !.status = st ]

Ok(v) == [ ok |-> TRUE, value |-> v, error |-> NoError ]
Throw(e) == [ ok |-> FALSE, value |-> NoValue, error |-> e ]

isRecord(p) == p.kind = "object"

\* a coercion that falls back only when the field is absent
bool_AbsentOnly(v, fallback) == IF v.t = "undefined" THEN fallback ELSE v.b

bool(v, fallback) == IF v.t = "boolean" THEN v.b ELSE fallback

validateInput(p) ==
    IF ~isRecord(p) THEN Throw(MkError("Invalid request body"))
    ELSE LET body == p.body
             travelerType == body.travelerType
             season == body.season
             role == body.role
         IN
         IF body.hotelId.t # "string" \/ body.hotelId.s = ""
         THEN Throw(MkError("hotelId is required"))
         ELSE IF travelerType.t # "string" \/ travelerType.s \notin Range(travelerTypes)
         THEN Throw(MkError("Invalid travelerType"))
         ELSE IF season.t # "string" \/ season.s \notin Range(seasonTypes)
         THEN Throw(MkError("Invalid season"))
         ELSE IF role.t # "string" \/ role.s \notin Range(roleTypes)
         THEN Throw(MkError("Invalid role"))
         ELSE Ok([ hotelId |-> body.hotelId.s,
                   travelerType |-> travelerType.s,
                   season |-> season.s,
                   includeRisks |-> bool(body.includeRisks, TRUE),
                   includePromotions |-> bool(body.includePromotions, TRUE),
                   includeUjvPov |-> bool(body.includeUjvPov, TRUE),
                   role |-> role.s,
                   useLLM |-> bool(body.useLLM, FALSE) ])

ValidationMessages == { "Invalid request body", "hotelId is required",
                        "Invalid travelerType", "Invalid season", "Invalid role" }

-----------------------------------------------------------------------------
(* buildQueryPlan *)

\* a plan that lists promotions ahead of risks
sectionsRequestedOf_PromotionsFirst(inp) ==
    << "positioning", "travelerFit" >>
      \o (IF inp.includePromotions THEN << "promotions" >> ELSE << >>)
      \o (IF inp.includeRisks THEN << "risks" >> ELSE << >>)
      \o (IF inp.includeUjvPov THEN << "ujvPov" >> ELSE << >>)

sectionsRequestedOf(inp) ==
    << "positioning", "travelerFit" >>
      \o (IF inp.includeRisks THEN << "risks" >> ELSE << >>)
      \o (IF inp.includePromotions THEN << "promotions" >> ELSE << >>)
      \o (IF inp.includeUjvPov THEN << "ujvPov" >> ELSE << >>)

globalTermsOf(h, inp) ==
    uniq(<< h.name, h.region, travelerLabels[inp.travelerType],
            seasonLabels[inp.season], roleLabels[inp.role] >>)

\* a mode that follows the caller's opt-in alone
retrievalModeOf_OptInOnly(inp, key) ==
    IF inp.useLLM THEN "llm_assisted" ELSE "mock_synthesis"

retrievalModeOf(inp, key) ==
    IF inp.useLLM /\ key THEN "llm_assisted" ELSE "mock_synthesis"

buildQueryPlan(h, inp, key) ==
    LET sectionsRequested == sectionsRequestedOf(inp)
        globalTerms == globalTermsOf(h, inp)
        perSection == [ k \in Range(sectionsRequested) |->
                          uniq(globalTerms \o sectionKeywords[k]) ]
    IN [ hotelId |-> h.hotelId,
         hotelName |-> h.name,
         travelerType |-> inp.travelerType,
         season |-> inp.season,
         role |-> inp.role,
         sectionsRequested |-> sectionsRequested,
         retrievalMode |-> retrievalModeOf(inp, key),
         queryTerms |-> [ global |-> globalTerms, perSection |-> perSection ],
         createdAt |-> Now ]

\* queryPlan.queryTerms.perSection.<k> ?? []
termsFor(plan, k) ==
    IF k \in DOMAIN plan.queryTerms.perSection
    THEN plan.queryTerms.perSection[k] ELSE << >>

-----------------------------------------------------------------------------
(* Chunk Scorer, Conflict Detector, Semantic Retriever *)

HasSpace(t) == \E i \in DOMAIN t : t[i] = " "

termScore(text, term) ==
    LET t == toLowerCase(term)
        compact == StripNonAlnum(t)
    IN IF IsBlank(t) THEN 0
       ELSE (IF Includes(text, t) THEN (IF HasSpace(t) THEN 2 ELSE 1) ELSE 0)
            + (IF compact # << >> /\ compact # t /\ Includes(StripNonAlnum(text), compact)
               THEN 1 ELSE 0)

keywordScore(chunk, terms) ==
    LET text == toLowerCase(chunk.title \o << " " >> \o chunk.text)
    IN SumSeq([ i \in DOMAIN terms |-> termScore(text, terms[i]) ])

NoConflict == [ found |-> FALSE,
                event |-> [ chunkId |-> "", reason |-> "", structuredRuleRef |-> << >> ] ]
Conflict(ev) == [ found |-> TRUE, event |-> ev ]

StackReason == "Chunk claims promo combinability that conflicts with contract stacking rules."
PositioningReason ==
    "Chunk conflicts with canonical positioning tags and site visit notes (privacy-led, not nightlife-led)."

hasPromoStackClaim(text) ==
    /\ \/ Includes(text, << "stack" >>)
       \/ Includes(text, << "combine" >>)
       \/ Includes(text, << "combinable" >>)
    /\ Includes(text, << "4th" >>)
    /\ Includes(text, << "early", " ", "booking" >>)

isBlockingRule(r) ==
    \/ r.ruleId = "sr_nonstack_4nf_eb15"
    \/ (~r.allowsCombination /\ Len(r.appliesToPromoIds) > 0)

\* Array.prototype.find: index of the first match, 0 when there is none
findBlockingRule(rules) ==
    IF \E i \in DOMAIN rules : isBlockingRule(rules[i])
    THEN CHOOSE i \in DOMAIN rules :
            /\ isBlockingRule(rules[i])
            /\ \A j \in 1..(i - 1) : ~isBlockingRule(rules[j])
    ELSE 0

nightlifeConflictPhrases ==
    << << "nightlife", "-", "focused" >>, << "nightlife", " ", "focused" >>,
       << "late", "-", "night", " ", "scene" >> >>

claimsNightlife(text) ==
    \E i \in DOMAIN nightlifeConflictPhrases : Includes(text, nightlifeConflictPhrases[i])

\* a detector that tests the positioning rule before the stacking-claim rule
detectSemanticConflict_PositioningFirst(chunk, section, h) ==
    LET text == toLowerCase(chunk.text)
        ruleIx == findBlockingRule(h.contract.stackingRules)
        structuredSaysNightlifeLimited == << "nightlife" >> \notin Range(h.positioningTags)
    IN IF claimsNightlife(text) /\ structuredSaysNightlifeLimited
          /\ section = "positioning"
       THEN Conflict([ chunkId |-> chunk.chunkId,
                       reason |-> PositioningReason,
                       structuredRuleRef |-> << "hotel.positioningTags" >> ])
       ELSE IF hasPromoStackClaim(text) /\ ruleIx # 0
       THEN Conflict([ chunkId |-> chunk.chunkId,
                       reason |-> StackReason,
                       structuredRuleRef |->
                          << "contract.stackingRules.",
                             h.contract.stackingRules[ruleIx].ruleId >> ])
       ELSE NoConflict

detectSemanticConflict(chunk, section, h) ==
    LET text == toLowerCase(chunk.text)
        ruleIx == findBlockingRule(h.contract.stackingRules)
        structuredSaysNightlifeLimited == << "nightlife" >> \notin Range(h.positioningTags)
    IN IF hasPromoStackClaim(text) /\ ruleIx # 0
       THEN Conflict([ chunkId |-> chunk.chunkId,
                       reason |-> StackReason,
                       structuredRuleRef |->
                          << "contract.stackingRules.",
                             h.contract.stackingRules[ruleIx].ruleId >> ])
       ELSE IF claimsNightlife(text) /\ structuredSaysNightlifeLimited
               /\ section = "positioning"
       THEN Conflict([ chunkId |-> chunk.chunkId,
                       reason |-> PositioningReason,
                       structuredRuleRef |-> << "hotel.positioningTags" >> ])
       ELSE NoConflict

\* a comparator that leaves ties on the score unbroken
compareScored_ScoreOnly(a, b) == b.score - a.score

\* the comparator of the sort: negative when a goes before b
compareScored(a, b) ==
    IF b.score - a.score # 0 THEN b.score - a.score
    ELSE b.chunk.reliability - a.chunk.reliability

\* Array.prototype.sort is stable: x goes after every element that does not
\* compare after it
insertScored(sorted, x) ==
    LET after == { i \in DOMAIN sorted : compareScored(sorted[i], x) > 0 }
        pos == IF after = {} THEN Len(sorted) + 1
               ELSE CHOOSE i \in after : \A j \in after : i <= j
    IN SubSeq(sorted, 1, pos - 1) \o << x >> \o SubSeq(sorted, pos, Len(sorted))

RECURSIVE sortScored(_, _)
sortScored(items, acc) ==
    IF items = << >> THEN acc
    ELSE sortScored(Tail(items), insertScored(acc, Head(items)))

\* the candidate list: chunks of the hotel with a positive score, sorted
scoredCandidates(chunks, h, terms) ==
    LET mine == SelectSeq(chunks, LAMBDA c : c.hotelId = h.hotelId)
        withScore == [ i \in DOMAIN mine |->
                         [ chunk |-> mine[i], score |-> keywordScore(mine[i], terms) ] ]
        positive == SelectSeq(withScore, LAMBDA x : x.score > 0)
    IN sortScored(positive, << >>)

\* variants of the walk used to test the retrieval properties
RECURSIVE walkScored_KeepConflict(_, _, _, _, _, _)
walkScored_KeepConflict(scored, section, h, topN, used, conflictsIgnored) ==
    IF scored = << >> THEN [ used |-> used, conflictsIgnored |-> conflictsIgnored ]
    ELSE LET item == Head(scored)
             conflict == detectSemanticConflict(item.chunk, section, h)
             logged == IF conflict.found THEN Append(conflictsIgnored, conflict.event)
                       ELSE conflictsIgnored
         IN IF Len(used) + 1 >= topN
            THEN [ used |-> Append(used, item.chunk), conflictsIgnored |-> logged ]
            ELSE walkScored_KeepConflict(Tail(scored), section, h, topN,
                                         Append(used, item.chunk), logged)

RECURSIVE walkScored_DropConflict(_, _, _, _, _, _)
walkScored_DropConflict(scored, section, h, topN, used, conflictsIgnored) ==
    IF scored = << >> THEN [ used |-> used, conflictsIgnored |-> conflictsIgnored ]
    ELSE LET item == Head(scored)
             conflict == detectSemanticConflict(item.chunk, section, h)
         IN IF conflict.found
            THEN walkScored_DropConflict(Tail(scored), section, h, topN, used,
                                         conflictsIgnored)
            ELSE IF Len(used) + 1 >= topN
            THEN [ used |-> Append(used, item.chunk),
                   conflictsIgnored |-> conflictsIgnored ]
            ELSE walkScored_DropConflict(Tail(scored), section, h, topN,
                                         Append(used, item.chunk), conflictsIgnored)

RECURSIVE walkScored(_, _, _, _, _, _)
walkScored(scored, section, h, topN, used, conflictsIgnored) ==
    IF scored = << >> THEN [ used |-> used, conflictsIgnored |-> conflictsIgnored ]
    ELSE LET item == Head(scored)
             conflict == detectSemanticConflict(item.chunk, section, h)
         IN IF conflict.found
            THEN walkScored(Tail(scored), section, h, topN, used,
                            Append(conflictsIgnored, conflict.event))
            ELSE IF Len(used) + 1 >= topN
            THEN [ used |-> Append(used, item.chunk),
                   conflictsIgnored |-> conflictsIgnored ]
            ELSE walkScored(Tail(scored), section, h, topN,
                            Append(used, item.chunk), conflictsIgnored)

DefaultTopN == 3

retrieveSemanticChunks(chunks, h, section, terms, topN) ==
    walkScored(scoredCandidates(chunks, h, terms), section, h, topN, << >>, << >>)

collectPromoSemanticConflicts_AsPositioning(chunks, h) ==
    LET mine == SelectSeq(chunks, LAMBDA c : c.hotelId = h.hotelId)
        hits == SelectSeq(mine, LAMBDA c : detectSemanticConflict(c, "positioning", h).found)
    IN [ i \in DOMAIN hits |-> detectSemanticConflict(hits[i], "positioning", h).event ]

collectPromoSemanticConflicts(chunks, h) ==
    LET mine == SelectSeq(chunks, LAMBDA c : c.hotelId = h.hotelId)
        hits == SelectSeq(mine, LAMBDA c : detectSemanticConflict(c, "promotions", h).found)
    IN [ i \in DOMAIN hits |-> detectSemanticConflict(hits[i], "promotions", h).event ]

-----------------------------------------------------------------------------
(* Citations *)

\* new Map(allSources.map((s) => [s.sourceId, s])): the last record of an id wins
sourceMapOf(sources) ==
    [ id \in { sources[i].sourceId : i \in DOMAIN sources } |->
        sources[CHOOSE i \in DOMAIN sources :
                   /\ sources[i].sourceId = id
                   /\ \A j \in DOMAIN sources : sources[j].sourceId = id => j <= i] ]

\* the fields of a Citation the engine reads; author, system, snippet and
\* docRef are copied along unread and are left out
toCitation(source) ==
    [ sourceId |-> source.sourceId, type |-> source.type, title |-> source.title,
      date |-> source.date, reliability |-> source.reliability ]

\* a resolution that maps every id through the lookup without removing
\* repeated ids first
collectCitations_NoDedup(sourceIds, sourceMap) ==
    LET resolved == SelectSeq(sourceIds, LAMBDA id : id \in DOMAIN sourceMap)
    IN [ i \in DOMAIN resolved |-> toCitation(sourceMap[resolved[i]]) ]

collectCitations(sourceIds, sourceMap) ==
    LET ids == uniq(sourceIds)
        resolved == SelectSeq(ids, LAMBDA id : id \in DOMAIN sourceMap)
    IN [ i \in DOMAIN resolved |-> toCitation(sourceMap[resolved[i]]) ]

\* a breakdown whose flag reports used chunks instead of ignored conflicts
buildRetrievalBreakdown_FlagFromChunks(structuredFactsCount, semanticChunksCount, conflictsIgnoredCount) ==
    [ structuredFactsCount |-> structuredFactsCount,
      semanticChunksCount |-> semanticChunksCount,
      overridesApplied |-> semanticChunksCount > 0,
      conflictsIgnoredCount |-> conflictsIgnoredCount ]

buildRetrievalBreakdown(structuredFactsCount, semanticChunksCount, conflictsIgnoredCount) ==
    [ structuredFactsCount |-> structuredFactsCount,
      semanticChunksCount |-> semanticChunksCount,
      overridesApplied |-> conflictsIgnoredCount > 0,
      conflictsIgnoredCount |-> conflictsIgnoredCount ]

-----------------------------------------------------------------------------
(* Section Builders *)

insufficientText == << "Insufficient verified sources to answer this section." >>

renderBulletText(lines) ==
    Join([ i \in DOMAIN lines |-> << "- " >> \o lines[i] ], "\n")

\* Number.prototype.toLocaleString (en-US grouping), for 0 <= n < 1000000
Pad3(k) ==
    IF k < 10 THEN << "00", ToString(k) >>
    ELSE IF k < 100 THEN << "0", ToString(k) >>
    ELSE << ToString(k) >>

toLocaleString(n) ==
    IF n < 1000 THEN << ToString(n) >>
    ELSE << ToString(n \div 1000), "," >> \o Pad3(n % 1000)

\* String(n)
StringOf(n) == << ToString(n) >>

toUpperCase(sev) ==
    CASE sev = "low" -> "LOW" [] sev = "medium" -> "MEDIUM" [] sev = "high" -> "HIGH"
      [] OTHER -> sev

\* obj[key] ?? []
GetOrEmpty(f, key) == IF key \in DOMAIN f THEN f[key] ELSE << >>

titlesOf(used) == [ i \in DOMAIN used |-> used[i].title ]

supportingColor(used) ==
    IF Len(used) > 0
    THEN << << "Supporting color (non-canonical): " >> \o Join(titlesOf(used), ", ")
            \o << "." >> >>
    ELSE << >>

statusOf_AlwaysOK(citations) == "OK"

statusOf(citations) == IF Len(citations) = 0 THEN "INSUFFICIENT_SOURCES" ELSE "OK"

textSection_Leak(citations, factsCount, okLines, sem) ==
    [ status |-> statusOf(citations),
      content |-> renderBulletText(okLines),
      citations |-> citations,
      semanticChunksUsed |-> sem.used,
      retrievalBreakdown |->
         buildRetrievalBreakdown(factsCount, Len(sem.used), Len(sem.conflictsIgnored)),
      conflictsIgnored |-> sem.conflictsIgnored ]

textSection(citations, factsCount, okLines, sem) ==
    LET status == statusOf(citations)
        contentLines == IF status = "OK" THEN okLines ELSE << insufficientText >>
    IN [ status |-> status,
         content |-> renderBulletText(contentLines),
         citations |-> citations,
         semanticChunksUsed |-> sem.used,
         retrievalBreakdown |->
            buildRetrievalBreakdown(factsCount, Len(sem.used), Len(sem.conflictsIgnored)),
         conflictsIgnored |-> sem.conflictsIgnored ]

positioningFacts(h, inp) ==
    << h.name \o << " is positioned as " >> \o Join(h.positioningTags, ", ") \o << "." >> >>
      \o h.positioning.strengths
      \o << h.seasonality[inp.season] >>

buildPositioningSection(h, sourceMap, sem, inp) ==
    LET citations == collectCitations(h.positioning.sourceIds, sourceMap)
        facts == positioningFacts(h, inp)
        okLines == << facts[1],
                      << "Core strengths: " >> \o Join(h.positioning.strengths, "; ")
                         \o << "." >>,
                      h.seasonality[inp.season] >>
                    \o supportingColor(sem.used)
    IN textSection(citations, Len(facts), okLines, sem)

bookingValueLine_Always(h, inp) ==
    << "Average booking value signal: USD " >>
       \o toLocaleString(h.bookingIntelligence.avgBookingValueUsd) \o << "." >>

bookingValueLine(h, inp) ==
    IF inp.role = "finance"
    THEN << "Average booking value signal: USD " >>
            \o toLocaleString(h.bookingIntelligence.avgBookingValueUsd) \o << "." >>
    ELSE << "Average booking value signal: " >>
            \o h.bookingIntelligence.qualitativeSummary \o << "." >>

themeSourceIds(t) == t.sourceIds

travelerFitFacts(h, inp) ==
    h.travelerFit.common
      \o GetOrEmpty(h.travelerFit.byType, inp.travelerType)
      \o h.bookingIntelligence.patterns
      \o [ i \in DOMAIN h.feedbackThemes |-> h.feedbackThemes[i].text ]
      \o << bookingValueLine(h, inp) >>

buildTravelerFitSection(h, sourceMap, sem, inp) ==
    LET travelerSpecific == GetOrEmpty(h.travelerFit.byType, inp.travelerType)
        travelerSourceIds ==
            h.travelerFit.sourceIds["common"]
              \o GetOrEmpty(h.travelerFit.sourceIds, inp.travelerType)
              \o FlatMap(themeSourceIds, h.feedbackThemes)
        citations == collectCitations(travelerSourceIds, sourceMap)
        facts == travelerFitFacts(h, inp)
        okLines ==
            << << "Traveler type assessed: " >> \o travelerLabels[inp.travelerType]
                  \o << "." >> >>
              \o h.travelerFit.common
              \o travelerSpecific
              \o << << "Booking intelligence: " >>
                       \o Join(h.bookingIntelligence.patterns, "; ") \o << "." >>,
                    bookingValueLine(h, inp),
                    << "Feedback themes: " >>
                       \o Join([ i \in DOMAIN h.feedbackThemes |->
                                   h.feedbackThemes[i].label ], ", ")
                       \o << "." >> >>
              \o supportingColor(sem.used)
    IN textSection(citations, Len(facts), okLines, sem)

riskSourceIds(r) == r.sourceIds

relevantRisksOf(h, inp) ==
    SelectSeq(h.risks, LAMBDA r : inp.season \in Range(r.seasonRelevance))

risksFacts(h, inp) ==
    LET relevantRisks == relevantRisksOf(h, inp)
    IN [ i \in DOMAIN relevantRisks |->
           << toUpperCase(relevantRisks[i].severity), ": " >> \o relevantRisks[i].text ]

buildRisksSection(h, sourceMap, sem, inp) ==
    LET relevantRisks == relevantRisksOf(h, inp)
        citations == collectCitations(FlatMap(riskSourceIds, relevantRisks), sourceMap)
        facts == risksFacts(h, inp)
        okLines == << << "Season assessed: " >> \o seasonLabels[inp.season] \o << "." >> >>
                     \o facts
                     \o supportingColor(sem.used)
    IN textSection(citations, Len(facts), okLines, sem)

buildUjvPovSection(h, sourceMap, sem) ==
    LET citations == collectCitations(h.ujvPov.sourceIds, sourceMap)
        facts == h.ujvPov.talkTrack
        okLines == h.ujvPov.talkTrack \o supportingColor(sem.used)
    IN textSection(citations, Len(facts), okLines, sem)

promoSourceIds(p) == p.sourceIds
ruleSourceIds(r) == r.sourceIds

buildPromotionsSection_NoStatusCheck(h, sourceMap, conflicts) ==
    LET sourceIds == FlatMap(promoSourceIds, h.promotions)
                       \o h.contract.sourceIds
                       \o FlatMap(ruleSourceIds, h.contract.stackingRules)
        citations == collectCitations(sourceIds, sourceMap)
    IN [ status |-> statusOf(citations),
         content |->
            [ promos |->
                [ i \in DOMAIN h.promotions |->
                    [ promoId |-> h.promotions[i].promoId,
                      name |-> h.promotions[i].name,
                      description |-> h.promotions[i].description,
                      validity |-> h.promotions[i].validity,
                      eligibility |-> h.promotions[i].eligibility ] ],
              stackingRules |->
                [ i \in DOMAIN h.contract.stackingRules |->
                    [ ruleId |-> h.contract.stackingRules[i].ruleId,
                      text |-> h.contract.stackingRules[i].text,
                      allowsCombination |->
                         h.contract.stackingRules[i].allowsCombination,
                      appliesToPromoIds |->
                         h.contract.stackingRules[i].appliesToPromoIds ] ] ],
         citations |-> citations,
         semanticChunksUsed |-> << >>,
         retrievalBreakdown |->
            buildRetrievalBreakdown(Len(h.promotions) + Len(h.contract.stackingRules),
                                    0, Len(conflicts)),
         conflictsIgnored |-> conflicts ]

buildPromotionsSection(h, sourceMap, conflicts) ==
    LET sourceIds == FlatMap(promoSourceIds, h.promotions)
                       \o h.contract.sourceIds
                       \o FlatMap(ruleSourceIds, h.contract.stackingRules)
        citations == collectCitations(sourceIds, sourceMap)
        status == statusOf(citations)
    IN [ status |-> status,
         content |->
            [ promos |->
                IF status = "OK"
                THEN [ i \in DOMAIN h.promotions |->
                         [ promoId |-> h.promotions[i].promoId,
                           name |-> h.promotions[i].name,
                           description |-> h.promotions[i].description,
                           validity |-> h.promotions[i].validity,
                           eligibility |-> h.promotions[i].eligibility ] ]
                ELSE << >>,
              stackingRules |->
                IF status = "OK"
                THEN [ i \in DOMAIN h.contract.stackingRules |->
                         [ ruleId |-> h.contract.stackingRules[i].ruleId,
                           text |-> h.contract.stackingRules[i].text,
                           allowsCombination |->
                              h.contract.stackingRules[i].allowsCombination,
                           appliesToPromoIds |->
                              h.contract.stackingRules[i].appliesToPromoIds ] ]
                ELSE << >> ],
         citations |-> citations,
         semanticChunksUsed |-> << >>,
         retrievalBreakdown |->
            buildRetrievalBreakdown(Len(h.promotions) + Len(h.contract.stackingRules),
                                    0, Len(conflicts)),
         conflictsIgnored |-> conflicts ]

-----------------------------------------------------------------------------
(* The data files explored: hotel_amanzoe.json, sources.json and            *)
(* unstructured_chunks.json as they may parse                               *)

RECURSIVE PickIdx(_, _, _)
PickIdx(s, S, i) ==
    IF i > Len(s) THEN << >>
    ELSE (IF i \in S THEN << s[i] >> ELSE << >>) \o PickIdx(s, S, i + 1)

\* the sub-lists of a list, order kept
SubLists(s) == { PickIdx(s, S, 1) : S \in SUBSET (DOMAIN s) }

NonStackRule ==
    [ ruleId |-> "sr_nonstack_4nf_eb15",
      text |-> << "4th night free cannot be combined with early booking" >>,
      allowsCombination |-> FALSE,
      appliesToPromoIds |-> << "promo_4nf", "promo_eb15" >>,
      sourceIds |-> << "src_contract" >> ]

GenericNonStackRule ==
    [ ruleId |-> "sr_generic_nonstack",
      text |-> << "Promotions are not combinable" >>,
      allowsCombination |-> FALSE,
      appliesToPromoIds |-> << "promo_4nf" >>,
      sourceIds |-> << "src_contract" >> ]

AllowRule ==
    [ ruleId |-> "sr_spa_credit",
      text |-> << "Spa credit combines with any offer" >>,
      allowsCombination |-> TRUE,
      appliesToPromoIds |-> << "promo_spa" >>,
      sourceIds |-> << >> ]

HotelBase ==
    [ hotelId |-> "amanzoe_gr",
      name |-> << "Amanzoe" >>,
      region |-> << "Peloponnese" >>,
      category |-> << "Ultra-luxury resort" >>,
      policy |-> [ maxAgeDaysBySourceType |->
                     ("site_visit" :> 365 @@ "post_trip_feedback" :> 180
                      @@ "booking_intelligence" :> 90 @@ "contract" :> 365
                      @@ "promotion" :> 90 @@ "ujv_pov" :> 365
                      @@ "unstructured_chunk" :> 120) ],
      positioningTags |-> << << "privacy" >>, << "design" >> >>,
      positioning |->
         [ strengths |-> << << "Hilltop pavilions with private pools" >>,
                            << "Discreet service" >> >>,
           sourceIds |-> << "src_site_visit", "src_unlisted", "src_site_visit" >> ],
      travelerFit |->
         [ common |-> << << "Suits guests who want seclusion" >> >>,
           byType |-> ("honeymoon" :> << << "Private dining for couples" >> >>),
           sourceIds |-> ("common" :> << "src_site_visit" >>
                          @@ "honeymoon" :> << "src_feedback" >>) ],
      seasonality |->
         [ t \in Range(seasonTypes) |->
             IF t = "peak_summer" THEN << "Hot and busy; book early" >>
             ELSE << "Quiet, warm sea, fewer crowds" >> ],
      risks |->
         << [ riskId |-> "risk_transfer",
              text |-> << "Long road transfer from Athens" >>,
              severity |-> "medium",
              seasonRelevance |-> << "late_september", "peak_summer" >>,
              sourceIds |-> << "src_site_visit" >> ],
            [ riskId |-> "risk_heat",
              text |-> << "Midday heat limits excursions" >>,
              severity |-> "high",
              seasonRelevance |-> << "peak_summer" >>,
              sourceIds |-> << "src_feedback" >> ] >>,
      promotions |->
         << [ promoId |-> "promo_4nf",
              name |-> << "4th Night Free" >>,
              description |-> << "Stay four nights, pay three" >>,
              validity |-> [ bookingFrom |-> 900, bookingTo |-> 1100,
                             travelFrom |-> 950, travelTo |-> 1200 ],
              eligibility |-> << << "Minimum four nights" >> >>,
              sourceIds |-> << "src_promo" >> ],
            [ promoId |-> "promo_eb15",
              name |-> << "Early Booking 15" >>,
              description |-> << "15 percent off when booked 90 days ahead" >>,
              validity |-> [ bookingFrom |-> 900, bookingTo |-> 1000,
                             travelFrom |-> 1000, travelTo |-> 1200 ],
              eligibility |-> << << "Book 90 days ahead" >> >>,
              sourceIds |-> << "src_promo" >> ] >>,
      contract |-> [ sourceIds |-> << "src_contract" >>,
                     stackingRules |-> << AllowRule, NonStackRule >> ],
      bookingIntelligence |->
         [ avgBookingValueUsd |-> 18500,
           qualitativeSummary |-> << "premium spend, long stays" >>,
           patterns |-> << << "Books 120 days ahead" >>, << "Five night average" >> >>,
           sourceIds |-> << "src_booking" >> ],
      feedbackThemes |->
         << [ themeId |-> "theme_privacy",
              label |-> << "Privacy" >>,
              text |-> << "Guests praise the seclusion" >>,
              sourceIds |-> << "src_feedback" >> ] >>,
      ujvPov |-> [ talkTrack |-> << << "Lead with privacy and design" >>,
                                    << "Qualify transfer tolerance early" >> >>,
                   sourceIds |-> << "src_ujv" >> ] ]

\* a record tagged nightlife, with a generic non-combinable rule, a booking
\* value below 1000, no feedback themes and a promotion limit of 120 days
HotelNightlife ==
    [ HotelBase EXCEPT
        !.policy.maxAgeDaysBySourceType["promotion"] = 120,
        !.positioningTags = << << "privacy" >>, << "nightlife" >> >>,
        !.contract.stackingRules = << AllowRule, GenericNonStackRule >>,
        !.bookingIntelligence.avgBookingValueUsd = 950,
        !.feedbackThemes = << >> ]

\* a record with no rule that forbids combination, no risks, no per-type
\* traveler-fit entries and a policy that limits only contracts
HotelLenient ==
    [ HotelBase EXCEPT
        !.contract.stackingRules = << AllowRule >>,
        !.risks = << >>,
        !.travelerFit.byType = [ t \in {} |-> << >> ],
        !.travelerFit.sourceIds = ("common" :> << "src_feedback" >>),
        !.policy.maxAgeDaysBySourceType = ("contract" :> 30) ]

Hotels == { HotelBase, HotelNightlife, HotelLenient }

SourceCatalogue ==
    << [ sourceId |-> "src_site_visit", type |-> "site_visit",
         title |-> << "Site visit report" >>, date |-> 940, reliability |-> 92,
         lastVerifiedAt |-> 950 ],
       [ sourceId |-> "src_feedback", type |-> "post_trip_feedback",
         title |-> << "Post-trip survey" >>, date |-> 700, reliability |-> 70,
         lastVerifiedAt |-> 710 ],
       [ sourceId |-> "src_contract", type |-> "contract",
         title |-> << "Rate contract" >>, date |-> 800, reliability |-> 95,
         lastVerifiedAt |-> 960 ],
       [ sourceId |-> "src_promo", type |-> "promotion",
         title |-> << "Promotion sheet" >>, date |-> 880, reliability |-> 90,
         lastVerifiedAt |-> 990 ],
       [ sourceId |-> "src_ujv", type |-> "ujv_pov",
         title |-> << "UJV point of view" >>, date |-> 890, reliability |-> 85,
         lastVerifiedAt |-> 890 ] >>

SourceLists == SubLists(SourceCatalogue)

\* source lists of the end-to-end runs: all, none, and two partial lists
SampleSourceLists ==
    { SourceCatalogue, << >>,
      PickIdx(SourceCatalogue, { 1, 5 }, 1),
      PickIdx(SourceCatalogue, { 2, 3, 4 }, 1) }

Chunk(id, hid, title, rel, date, text) ==
    [ chunkId |-> id, hotelId |-> hid, sourceType |-> "unstructured_chunk",
      title |-> title, date |-> date, reliability |-> rel, text |-> text ]

c_privacy ==
    Chunk("c_privacy", "amanzoe_gr", << "Privacy", " ", "notes" >>, 80, 950,
          << "guests", " ", "praise", " ", "privacy", " ", "and", " ", "service" >>)
c_honeymoon ==
    Chunk("c_honeymoon", "amanzoe_gr", << "Advisor", " ", "brief" >>, 70, 960,
          << "romantic", " ", "Honeymoon", " ", "dinners" >>)
c_transfer ==
    Chunk("c_transfer", "amanzoe_gr", << "Transfer", " ", "times" >>, 85, 800,
          << "logistics", " ", "from", " ", "athens", " ", "to", " ", "Amanzoe" >>)
c_design ==
    Chunk("c_design", "amanzoe_gr", << "Design", " ", "review" >>, 80, 990,
          << "design", " ", "and", " ", "service" >>)
c_nightlife ==
    Chunk("c_nightlife", "amanzoe_gr", << "Guest", " ", "blog" >>, 40, 970,
          << "a", " ", "Nightlife", "-", "focused", " ", "resort" >>)
c_latenight ==
    Chunk("c_latenight", "amanzoe_gr", << "Forum", " ", "post" >>, 30, 980,
          << "famous", " ", "late", "-", "night", " ", "scene" >>)
c_stack ==
    Chunk("c_stack", "amanzoe_gr", << "Promo", " ", "rumour" >>, 50, 985,
          << "4th", " ", "night", " ", "free", " ", "can", " ", "Stack", " ",
             "with", " ", "Early", " ", "Booking" >>)
c_stack_named ==
    Chunk("c_stack_named", "amanzoe_gr", << "Agent", " ", "email" >>, 60, 700,
          << "amanzoe", ": ", "combine", " ", "4th", " ", "night", " ", "and", " ",
             "early", " ", "booking" >>)
c_both ==
    Chunk("c_both", "amanzoe_gr", << "Mixed", " ", "note" >>, 45, 975,
          << "nightlife", " ", "focused", ", ", "combinable", " ", "4th", " ",
             "night", " ", "with", " ", "early", " ", "booking" >>)
c_other ==
    Chunk("c_other", "other_hotel", << "Other", " ", "property" >>, 99, 990,
          << "privacy", " ", "service", " ", "design", " ", "nightlife", "-",
             "focused" >>)

\* pools of the end-to-end runs
SamplePools ==
    { << c_privacy, c_stack, c_nightlife, c_other >>,
      << c_latenight, c_stack_named, c_honeymoon, c_both >>,
      << c_nightlife, c_privacy, c_transfer, c_design, c_honeymoon, c_stack_named >> }

\* chunks the retrieval runs arrange into pools of up to MaxChunks
RetrievalChunks ==
    { c_privacy, c_honeymoon, c_design, c_nightlife, c_stack, c_stack_named,
      c_other }

-----------------------------------------------------------------------------
(* Trust computation (the tail of runKnowledgeSpineQuery) *)

NullDate == 0

daysOld(date) == Now - date

RECURSIVE MaxOf(_)
MaxOf(s) == IF s = << >> THEN NullDate ELSE Max(Head(s), MaxOf(Tail(s)))

\* formatDate(maxDate(dates)): the latest date, NullDate when there is none
maxDate(dates) == MaxOf(dates)

presentKeys(secs) == SelectSeq(SectionKeyOrder, LAMBDA k : k \in DOMAIN secs)

\* Object.values(responseDraft.sections)
\* the produced sections without promotions
requestedSectionsOf_TextOnly(secs) ==
    LET keys == SelectSeq(SectionKeyOrder,
                          LAMBDA k : k \in DOMAIN secs /\ k # "promotions")
    IN [ i \in DOMAIN keys |-> secs[keys[i]] ]

requestedSectionsOf(secs) == [ i \in DOMAIN presentKeys(secs) |-> secs[presentKeys(secs)[i]] ]

sectionCitations(sec) == sec.citations
sectionChunks(sec) == sec.semanticChunksUsed

selectSectionSourceItems_CitationsOnly(section) ==
    [ i \in DOMAIN section.citations |->
        [ date |-> section.citations[i].date,
          type |-> section.citations[i].type,
          label |-> << section.citations[i].sourceId, " (", section.citations[i].type,
                       ")" >> ] ]

selectSectionSourceItems(section) ==
    [ i \in DOMAIN section.citations |->
        [ date |-> section.citations[i].date,
          type |-> section.citations[i].type,
          label |-> << section.citations[i].sourceId, " (", section.citations[i].type,
                       ")" >> ] ]
    \o
    [ i \in DOMAIN section.semanticChunksUsed |->
        [ date |-> section.semanticChunksUsed[i].date,
          type |-> section.semanticChunksUsed[i].sourceType,
          label |-> << section.semanticChunksUsed[i].chunkId, " (",
                       section.semanticChunksUsed[i].sourceType, ")" >> ] ]

sectionWarnings(sectionKey, section, policy) ==
    LET items == selectSectionSourceItems(section)
        late == SelectSeq(items, LAMBDA it :
                    /\ it.type \in DOMAIN policy
                    /\ daysOld(it.date) > policy[it.type])
    IN [ i \in DOMAIN late |->
           << sectionKey, ": " >> \o late[i].label
             \o << " exceeds max age ", ToString(policy[late[i].type]), "d (age ",
                   ToString(daysOld(late[i].date)), "d)" >> ]

RECURSIVE policyWarningsOf(_, _, _)
policyWarningsOf(keys, secs, policy) ==
    IF keys = << >> THEN << >>
    ELSE sectionWarnings(Head(keys), secs[Head(keys)], policy)
           \o policyWarningsOf(Tail(keys), secs, policy)

\* the evidence-strength score as the exact fraction num / den
\*   clamp(min(1, n/8) * (avg * 0.9) + recencyBonus + semanticBonus, 0, 1)
\* with avg = relSum / (100 * n)
scoreDen(n) == 8000 * Max(n, 1)

scoreNum_Uncapped(n, relSum, anyRecent, semanticCount) ==
    9 * n * relSum
      + 80 * Max(n, 1) * ((IF anyRecent THEN 5 ELSE 0) + Min(2, semanticCount))

scoreNum(n, relSum, anyRecent, semanticCount) ==
    LET raw == 9 * Min(8, n) * relSum
               + 80 * Max(n, 1) * ((IF anyRecent THEN 5 ELSE 0) + Min(2, semanticCount))
    IN Max(0, Min(raw, scoreDen(n)))

\* Number(score.toFixed(2)), in hundredths
toFixed2(num, den) == (200 * num + den) \div (2 * den)

labelOf(num, den) ==
    IF 4 * num >= 3 * den THEN "High"
    ELSE IF 5 * num >= 3 * den THEN "Medium"
    ELSE "Low"

draftTrust(h) ==
    [ evidenceStrengthScore |-> 0,
      evidenceStrengthLabel |-> "Low",
      freshness |-> [ promotionsLastVerifiedDate |-> NullDate,
                      mostRecentSiteVisitDate |-> NullDate,
                      lastFeedbackDate |-> NullDate,
                      lastSemanticChunkDate |-> NullDate ],
      stats |-> [ structuredSourcesUsed |-> 0, unstructuredSourcesUsed |-> 0,
                  semanticChunksUsed |-> 0, structuredFactsUsed |-> 0,
                  conflictsIgnored |-> 0 ],
      guardrails |-> [ canonicalOverridesNotes |-> FALSE,
                       promotionsFromContractOnly |-> TRUE,
                       allSectionsBackedByCitations |-> FALSE,
                       sensitiveDataRestrictedByRole |-> TRUE,
                       withinFreshnessPolicy |-> "PASS",
                       policyWarnings |-> << >> ],
      policyCompliance |-> "PASS",
      policySnapshot |-> h.policy.maxAgeDaysBySourceType,
      escalationNeeded |-> FALSE,
      escalationReason |-> << >> ]

computeTrust(h, inp, secs, sourceMap) ==
    LET requestedSections == requestedSectionsOf(secs)
        allCitations == FlatMap(sectionCitations, requestedSections)
        totalCitations == Len(allCitations)
        relSum == SumSeq([ i \in DOMAIN allCitations |-> allCitations[i].reliability ])
        anyRecent == \E i \in DOMAIN allCitations : daysOld(allCitations[i].date) <= 120
        nonConflictingSemanticCount ==
            SumSeq([ i \in DOMAIN requestedSections |->
                       Len(requestedSections[i].semanticChunksUsed) ])
        num == scoreNum(totalCitations, relSum, anyRecent, nonConflictingSemanticCount)
        den == scoreDen(totalCitations)
        evidenceStrengthLabel == labelOf(num, den)
        citedIds == SelectSeq(uniq([ i \in DOMAIN allCitations |-> allCitations[i].sourceId ]),
                              LAMBDA id : id \in DOMAIN sourceMap)
        uniqueCitationSources == [ i \in DOMAIN citedIds |-> sourceMap[citedIds[i]] ]
        structuredSourcesUsed ==
            Len(SelectSeq(uniqueCitationSources,
                          LAMBDA x : x.type \notin unstructuredSourceTypes))
        unstructuredSourcesUsed ==
            Len(SelectSeq(uniqueCitationSources,
                          LAMBDA x : x.type \in unstructuredSourceTypes))
        structuredFactsUsed ==
            SumSeq([ i \in DOMAIN requestedSections |->
                       requestedSections[i].retrievalBreakdown.structuredFactsCount ])
        conflictsIgnored ==
            SumSeq([ i \in DOMAIN requestedSections |->
                       Len(requestedSections[i].conflictsIgnored) ])
        promoCites ==
            IF "promotions" \in DOMAIN secs
            THEN SelectSeq(secs["promotions"].citations,
                           LAMBDA c : c.type = "promotion" \/ c.type = "contract")
            ELSE << >>
        promotionsDates ==
            [ i \in DOMAIN promoCites |->
                IF promoCites[i].sourceId \in DOMAIN sourceMap
                THEN sourceMap[promoCites[i].sourceId].lastVerifiedAt
                ELSE promoCites[i].date ]
        siteVisits == SelectSeq(uniqueCitationSources, LAMBDA x : x.type = "site_visit")
        feedbacks == SelectSeq(uniqueCitationSources,
                               LAMBDA x : x.type = "post_trip_feedback")
        usedChunks == FlatMap(sectionChunks, requestedSections)
        policyWarnings ==
            policyWarningsOf(presentKeys(secs), secs, h.policy.maxAgeDaysBySourceType)
        withinFreshnessPolicy == IF Len(policyWarnings) > 0 THEN "WARN" ELSE "PASS"
        allSectionsBackedByCitations ==
            \A i \in DOMAIN requestedSections :
                /\ Len(requestedSections[i].citations) > 0
                /\ requestedSections[i].status = "OK"
        sensitiveDataRestrictedByRole ==
            \/ inp.role = "finance"
            \/ ~Includes(secs["travelerFit"].content,
                         StringOf(h.bookingIntelligence.avgBookingValueUsd))
        travelerFitInsufficient == secs["travelerFit"].status = "INSUFFICIENT_SOURCES"
        promotionsMissingSources ==
            /\ inp.includePromotions
            /\ (IF "promotions" \in DOMAIN secs
                THEN Len(secs["promotions"].citations) ELSE 0) = 0
        policyWarn == withinFreshnessPolicy = "WARN"
        lowScore == 5 * num < 3 * den
        escalationNeeded ==
            lowScore \/ promotionsMissingSources \/ travelerFitInsufficient \/ policyWarn
        escalationReason ==
            IF lowScore
            THEN << "Reason: Evidence Strength below threshold (0.6). Current score ",
                    ToString(toFixed2(num, den)) >>
            ELSE IF promotionsMissingSources
            THEN << "Reason: Promotions requested but no verified promotions/contract sources were found." >>
            ELSE IF travelerFitInsufficient
            THEN << "Reason: Traveler Fit section lacks sufficient verified evidence." >>
            ELSE IF policyWarn
            THEN << "Reason: Policy freshness WARN." >>
            ELSE << >>
    IN [ evidenceStrengthScore |-> toFixed2(num, den),
         evidenceStrengthLabel |-> evidenceStrengthLabel,
         freshness |->
            [ promotionsLastVerifiedDate |-> maxDate(promotionsDates),
              mostRecentSiteVisitDate |->
                 maxDate([ i \in DOMAIN siteVisits |-> siteVisits[i].date ]),
              lastFeedbackDate |->
                 maxDate([ i \in DOMAIN feedbacks |-> feedbacks[i].date ]),
              lastSemanticChunkDate |->
                 maxDate([ i \in DOMAIN usedChunks |-> usedChunks[i].date ]) ],
         stats |-> [ structuredSourcesUsed |-> structuredSourcesUsed,
                     unstructuredSourcesUsed |-> unstructuredSourcesUsed,
                     semanticChunksUsed |-> nonConflictingSemanticCount,
                     structuredFactsUsed |-> structuredFactsUsed,
                     conflictsIgnored |-> conflictsIgnored ],
         guardrails |-> [ canonicalOverridesNotes |-> conflictsIgnored > 0,
                          promotionsFromContractOnly |-> TRUE,
                          allSectionsBackedByCitations |-> allSectionsBackedByCitations,
                          sensitiveDataRestrictedByRole |-> sensitiveDataRestrictedByRole,
                          withinFreshnessPolicy |-> withinFreshnessPolicy,
                          policyWarnings |-> policyWarnings ],
         policyCompliance |-> withinFreshnessPolicy,
         policySnapshot |-> h.policy.maxAgeDaysBySourceType,
         escalationNeeded |-> escalationNeeded,
         escalationReason |-> escalationReason ]

-----------------------------------------------------------------------------
(* Request bodies explored *)

HotelIdVals == { JNumber, JStr(""), JStr("amanzoe_gr"), JStr("unknown_hotel") }
TravelerVals == { JStr("honeymoon"), JStr("backpacker") }
SeasonVals == { JStr("late_september"), JStr("peak_summer"), JUndefined }
RoleVals == { JStr("finance"), JStr("reservations"), JStr("guest") }
FlagVals == { JBool(TRUE), JBool(FALSE), JUndefined }
LlmFlagVals == { JBool(TRUE), JBool(FALSE), JStr("yes"), JUndefined }

Bodies ==
    [ hotelId : HotelIdVals, travelerType : TravelerVals, season : SeasonVals,
      role : RoleVals, includeRisks : FlagVals \cup { JNumber },
      includePromotions : FlagVals \cup { JStr("false") },
      includeUjvPov : FlagVals, useLLM : LlmFlagVals ]

NoBody == [ f \in BodyFields |-> JUndefined ]

Consumed == [ kind |-> "consumed", body |-> NoBody ]

Payloads ==
    { [ kind |-> "malformed", body |-> NoBody ],
      [ kind |-> "nonobject", body |-> NoBody ] }
    \cup { [ kind |-> "object", body |-> b ] : b \in Bodies }

-----------------------------------------------------------------------------
(* What the narrative service may answer *)

LlmText(k) == << "LLM rewrite of ", k >>

\* JSON.parse(content) as an object: key -> JSON value
ParsedAll ==
    [ k \in { "positioning", "travelerFit", "risks", "ujvPov", "promotions" } |->
        [ t |-> "string", s |-> LlmText(k) ] ]

ParsedPartial ==
    ("positioning" :> [ t |-> "string", s |-> << >> ]
     @@ "risks" :> [ t |-> "number", s |-> << >> ]
     @@ "ujvPov" :> [ t |-> "string", s |-> LlmText("ujvPov") ])

ParsedWithFigure(h) ==
    ("travelerFit" :>
        [ t |-> "string",
          s |-> << "Typical spend is USD " >>
                  \o toLocaleString(h.bookingIntelligence.avgBookingValueUsd) ])

ParsedWithPlainFigure(h) ==
    ("travelerFit" :>
        [ t |-> "string",
          s |-> << "Typical spend is USD " >>
                  \o StringOf(h.bookingIntelligence.avgBookingValueUsd) ])

ParsedEmpty == [ k \in {} |-> [ t |-> "string", s |-> << >> ] ]

LlmOutcomes(h) ==
    { [ kind |-> "throws", parsed |-> ParsedEmpty ],
      [ kind |-> "not_ok", parsed |-> ParsedEmpty ],
      [ kind |-> "no_content", parsed |-> ParsedEmpty ],
      [ kind |-> "unparseable", parsed |-> ParsedEmpty ],
      [ kind |-> "not_object", parsed |-> ParsedEmpty ],
      [ kind |-> "parsed", parsed |-> ParsedEmpty ],
      [ kind |-> "parsed", parsed |-> ParsedAll ],
      [ kind |-> "parsed", parsed |-> ParsedPartial ],
      [ kind |-> "parsed", parsed |-> ParsedWithFigure(h) ],
      [ kind |-> "parsed", parsed |-> ParsedWithPlainFigure(h) ] }

NoOverrides == [ k \in {} |-> << >> ]

\* the object built from the service's answer (the try block of
\* maybeLlmNarrativeOverride)
overridesFrom(outcome) ==
    IF outcome.kind # "parsed" THEN NoOverrides
    ELSE [ k \in { x \in Range(TextSectionKeys) :
                     x \in DOMAIN outcome.parsed /\ outcome.parsed[x].t = "string" } |->
             outcome.parsed[k].s ]

\* if (llmOverrides.k && sections.k?.status === "OK") sections.k.content = llmOverrides.k
overrideApplies(secs, overrides, k) ==
    /\ k \in DOMAIN overrides
    /\ overrides[k] # << >>
    /\ k \in DOMAIN secs
    /\ secs[k].status = "OK"

applyOverrides_IgnoreStatus(secs, overrides) ==
    [ k \in DOMAIN secs |->
        IF k \in DOMAIN overrides /\ overrides[k] # << >>
        THEN [ secs[k] EXCEPT !.content = overrides[k],
                              !.status = "OK" ]
        ELSE secs[k] ]

applyOverrides(secs, overrides) ==
    [ k \in DOMAIN secs |->
        IF k \in Range(TextSectionKeys) /\ overrideApplies(secs, overrides, k)
        THEN [ secs[k] EXCEPT !.content = overrides[k] ]
        ELSE secs[k] ]

-----------------------------------------------------------------------------
(* The request as a state machine: POST, then runKnowledgeSpineQuery *)

NoSections == [ k \in {} |-> NoValue ]
NoSemantic == [ k \in {} |-> NoValue ]

Init ==
    /\ pc = "received"
    /\ payload \in Payloads
    /\ hasApiKey \in BOOLEAN
    /\ input = NoValue
    /\ thrown = NoError
    /\ hotel = NoValue
    /\ allSources = << >>
    /\ allChunks = << >>
    /\ queryPlan = NoValue
    /\ semantic = NoSemantic
    /\ promoConflicts = << >>
    /\ sections = NoSections
    /\ llmOverrides = NoOverrides
    /\ trust = NoValue
    /\ http = NoValue
    /\ dataReads = 0
    /\ llmCalls = 0
    /\ llmOutcome = NoValue
    /\ draftContent = NoSections

\* const body = await req.json(), for a body that is not JSON
ParseBodyFails ==
    /\ pc = "received"
    /\ payload.kind = "malformed"
    /\ thrown' = MkError("Unexpected token in JSON")
    /\ pc' = "caught"
    /\ UNCHANGED << payload, hasApiKey, input, hotel, allSources, allChunks, queryPlan,
                    semantic, promoConflicts, sections, llmOverrides, trust, http,
                    dataReads, llmCalls, draftContent,
                    llmOutcome >>

\* const input = validateInput(rawPayload)
Validate ==
    /\ pc = "received"
    /\ payload.kind # "malformed"
    /\ LET r == validateInput(payload)
       IN IF r.ok
          THEN /\ input' = r.value
               /\ pc' = "load"
               /\ UNCHANGED thrown
          ELSE /\ thrown' = r.error
               /\ pc' = "caught"
               /\ UNCHANGED input
    /\ UNCHANGED << payload, hasApiKey, hotel, allSources, allChunks, queryPlan,
                    semantic, promoConflicts, sections, llmOverrides, trust, http,
                    dataReads, llmCalls, draftContent,
                    llmOutcome >>

LoadData_BeforeValidation ==
    /\ pc \in { "received", "load" }
    /\ dataReads = 0
    /\ \E h \in Hotels, srcs \in SampleSourceLists, pool \in SamplePools :
          /\ hotel' = h
          /\ allSources' = srcs
          /\ allChunks' = pool
    /\ dataReads' = dataReads + 1
    /\ payload' = IF pc = "load" THEN Consumed ELSE payload
    /\ pc' = IF pc = "load" THEN "match" ELSE pc
    /\ UNCHANGED << hasApiKey, input, thrown, queryPlan, semantic,
                    promoConflicts, sections, llmOverrides, trust, http, llmCalls,
                    draftContent,
                    llmOutcome >>

\* await Promise.all([readJson(...), readJson(...), readJson(...)]); the raw
\* payload is not read again from here on
LoadData ==
    /\ pc = "load"
    /\ \E h \in Hotels, srcs \in SampleSourceLists, pool \in SamplePools :
          /\ hotel' = h
          /\ allSources' = srcs
          /\ allChunks' = pool
    /\ dataReads' = dataReads + 1
    /\ payload' = Consumed
    /\ pc' = "match"
    /\ UNCHANGED << hasApiKey, input, thrown, queryPlan, semantic,
                    promoConflicts, sections, llmOverrides, trust, http, llmCalls,
                    draftContent,
                    llmOutcome >>

\* a readJson that rejects (file missing, or not JSON)
\* a rejected read that no handler catches
LoadDataFails_Unhandled ==
    /\ pc = "load"
    /\ thrown' = MkError("ENOENT: no such file or directory")
    /\ dataReads' = dataReads + 1
    /\ payload' = Consumed
    /\ pc' = "rejected"
    /\ UNCHANGED << hasApiKey, input, hotel, allSources, allChunks, queryPlan,
                    semantic, promoConflicts, sections, llmOverrides, trust, http,
                    llmCalls, draftContent,
                    llmOutcome >>

LoadDataFails ==
    /\ pc = "load"
    /\ thrown' = MkError("ENOENT: no such file or directory")
    /\ dataReads' = dataReads + 1
    /\ payload' = Consumed
    /\ pc' = "caught"
    /\ UNCHANGED << hasApiKey, input, hotel, allSources, allChunks, queryPlan,
                    semantic, promoConflicts, sections, llmOverrides, trust, http,
                    llmCalls, draftContent,
                    llmOutcome >>

HotelNotFound_NoStatus ==
    /\ pc = "match"
    /\ hotel.hotelId # input.hotelId
    /\ thrown' = MkError("Hotel not found")
    /\ pc' = "caught"
    /\ UNCHANGED << payload, hasApiKey, input, hotel, allSources, allChunks, queryPlan,
                    semantic, promoConflicts, sections, llmOverrides, trust, http,
                    dataReads, llmCalls, draftContent,
                    llmOutcome >>

\* if (hotel.hotelId !== input.hotelId) throw ... status 404
HotelNotFound ==
    /\ pc = "match"
    /\ hotel.hotelId # input.hotelId
    /\ thrown' = WithStatus(MkError("Hotel not found"), 404)
    /\ pc' = "caught"
    /\ UNCHANGED << payload, hasApiKey, input, hotel, allSources, allChunks, queryPlan,
                    semantic, promoConflicts, sections, llmOverrides, trust, http,
                    dataReads, llmCalls, draftContent,
                    llmOutcome >>

\* const queryPlan = buildQueryPlan(hotel, input)
PlanQuery ==
    /\ pc = "match"
    /\ hotel.hotelId = input.hotelId
    /\ queryPlan' = buildQueryPlan(hotel, input, hasApiKey)
    /\ pc' = "retrieve"
    /\ UNCHANGED << payload, hasApiKey, input, thrown, hotel, allSources, allChunks,
                    semantic, promoConflicts, sections, llmOverrides, trust, http,
                    dataReads, llmCalls, draftContent,
                    llmOutcome >>

retrievedKeys(inp) ==
    { "positioning", "travelerFit" }
      \cup (IF inp.includeRisks THEN { "risks" } ELSE {})
      \cup (IF inp.includeUjvPov THEN { "ujvPov" } ELSE {})

\* the four retrieveSemanticChunks calls and collectPromoSemanticConflicts
Retrieve ==
    /\ pc = "retrieve"
    /\ semantic' = [ k \in retrievedKeys(input) |->
                       retrieveSemanticChunks(allChunks, hotel, k,
                                              termsFor(queryPlan, k), DefaultTopN) ]
    /\ promoConflicts' = IF input.includePromotions
                         THEN collectPromoSemanticConflicts(allChunks, hotel)
                         ELSE << >>
    /\ pc' = "build"
    /\ UNCHANGED << payload, hasApiKey, input, thrown, hotel, allSources, allChunks,
                    queryPlan, sections, llmOverrides, trust, http, dataReads,
                    llmCalls, draftContent,
                    llmOutcome >>

builtKeys_NoUjvPov(inp) ==
    (retrievedKeys(inp) \ { "ujvPov" })
      \cup (IF inp.includePromotions THEN { "promotions" } ELSE {})

builtKeys(inp) ==
    retrievedKeys(inp) \cup (IF inp.includePromotions THEN { "promotions" } ELSE {})

buildSection(k, h, sourceMap, sem, conflicts, inp) ==
    CASE k = "positioning" -> buildPositioningSection(h, sourceMap, sem[k], inp)
      [] k = "travelerFit" -> buildTravelerFitSection(h, sourceMap, sem[k], inp)
      [] k = "risks" -> buildRisksSection(h, sourceMap, sem[k], inp)
      [] k = "promotions" -> buildPromotionsSection(h, sourceMap, conflicts)
      [] k = "ujvPov" -> buildUjvPovSection(h, sourceMap, sem[k])

\* the five builders and the responseDraft literal
BuildSections ==
    /\ pc = "build"
    /\ LET sourceMap == sourceMapOf(allSources)
           built == [ k \in builtKeys(input) |->
                        buildSection(k, hotel, sourceMap, semantic, promoConflicts, input) ]
       IN /\ sections' = built
          /\ draftContent' = [ k \in DOMAIN built |-> built[k].content ]
    /\ trust' = draftTrust(hotel)
    /\ pc' = "llm"
    /\ UNCHANGED << payload, hasApiKey, input, thrown, hotel, allSources, allChunks,
                    queryPlan, semantic, promoConflicts, llmOverrides, http, dataReads,
                    llmCalls,
                    llmOutcome >>

\* maybeLlmNarrativeOverride returning {} without calling the service
LlmSkipped ==
    /\ pc = "llm"
    /\ ~input.useLLM \/ ~hasApiKey
    /\ llmOverrides' = NoOverrides
    /\ pc' = "apply"
    /\ UNCHANGED << payload, hasApiKey, input, thrown, hotel, allSources, allChunks,
                    queryPlan, semantic, promoConflicts, sections, trust, http,
                    dataReads, llmCalls, draftContent,
                    llmOutcome >>

LlmCall_Unguarded ==
    /\ pc = "llm"
    /\ input.useLLM /\ hasApiKey
    /\ \E outcome \in LlmOutcomes(hotel) :
          /\ llmOutcome' = outcome
          /\ llmOverrides' = overridesFrom(outcome)
          /\ IF outcome.kind \in { "throws", "unparseable" }
             THEN /\ thrown' = MkError("narrative call failed")
                  /\ pc' = "caught"
             ELSE /\ thrown' = thrown
                  /\ pc' = "apply"
    /\ llmCalls' = llmCalls + 1
    /\ UNCHANGED << payload, hasApiKey, input, hotel, allSources, allChunks,
                    queryPlan, semantic, promoConflicts, sections, trust, http,
                    dataReads, draftContent >>

\* maybeLlmNarrativeOverride calling the service once
LlmCall ==
    /\ pc = "llm"
    /\ input.useLLM /\ hasApiKey
    /\ \E outcome \in LlmOutcomes(hotel) :
          /\ llmOutcome' = outcome
          /\ llmOverrides' = overridesFrom(outcome)
    /\ llmCalls' = llmCalls + 1
    /\ pc' = "apply"
    /\ UNCHANGED << payload, hasApiKey, input, thrown, hotel, allSources, allChunks,
                    queryPlan, semantic, promoConflicts, sections, trust, http,
                    dataReads, draftContent >>

\* the four guarded assignments of override text
ApplyOverrides ==
    /\ pc = "apply"
    /\ sections' = applyOverrides(sections, llmOverrides)
    /\ pc' = "trust"
    /\ UNCHANGED << payload, hasApiKey, input, thrown, hotel, allSources, allChunks,
                    queryPlan, semantic, promoConflicts, llmOverrides, trust, http,
                    dataReads, llmCalls, draftContent,
                    llmOutcome >>

\* responseDraft.trust = {...}; return responseDraft
ComputeTrust ==
    /\ pc = "trust"
    /\ trust' = computeTrust(hotel, input, sections, sourceMapOf(allSources))
    /\ pc' = "return"
    /\ UNCHANGED << payload, hasApiKey, input, thrown, hotel, allSources, allChunks,
                    queryPlan, semantic, promoConflicts, sections, llmOverrides, http,
                    dataReads, llmCalls, draftContent,
                    llmOutcome >>

\* the status POST derives from a caught error
errorStatus(e) == IF e.hasStatus THEN e.status ELSE 500

errorCode(status) == IF status = 404 THEN "NOT_FOUND" ELSE "QUERY_FAILED"

\* return NextResponse.json(result, { status: 200 })
RespondOk ==
    /\ pc = "return"
    /\ http' = [ status |-> 200, error |-> "", details |-> "", result |-> TRUE ]
    /\ pc' = "done"
    /\ UNCHANGED << payload, hasApiKey, input, thrown, hotel, allSources, allChunks,
                    queryPlan, semantic, promoConflicts, sections, llmOverrides, trust,
                    dataReads, llmCalls, draftContent,
                    llmOutcome >>

\* the catch block of POST
RespondError ==
    /\ pc = "caught"
    /\ http' = [ status |-> errorStatus(thrown),
                 error |-> errorCode(errorStatus(thrown)),
                 details |-> thrown.message,
                 result |-> FALSE ]
    /\ pc' = "done"
    /\ UNCHANGED << payload, hasApiKey, input, thrown, hotel, allSources, allChunks,
                    queryPlan, semantic, promoConflicts, sections, llmOverrides, trust,
                    dataReads, llmCalls, draftContent,
                    llmOutcome >>

Next ==
    \/ ParseBodyFails
    \/ Validate
    \/ LoadData
    \/ LoadDataFails
    \/ HotelNotFound
    \/ PlanQuery
    \/ Retrieve
    \/ BuildSections
    \/ LlmSkipped
    \/ LlmCall
    \/ ApplyOverrides
    \/ ComputeTrust
    \/ RespondOk
    \/ RespondError

Spec == Init /\ [][Next]_vars

\* the positions of the handler, in the order a request passes them
Positions ==
    << "received", "load", "match", "retrieve", "build", "llm", "apply", "trust",
       "return", "caught", "done" >>

\* every await settles (the body read, the data load and the narrative call
\* return or fail) and every synchronous stretch runs to its end: the
\* handler does not stay forever at a position that is not the last
LiveSpec ==
    Init /\ [][Next]_vars /\ WF_pc(pc # "done" /\ pc' \in Range(Positions))

-----------------------------------------------------------------------------
(* Runs that start from a validated request and loaded data, to explore the *)
(* builders over every source list and the retriever over every chunk pool  *)

ValidInput(tt, se, ro, risks, promos, ujv) ==
    [ hotelId |-> "amanzoe_gr", travelerType |-> tt, season |-> se,
      includeRisks |-> risks, includePromotions |-> promos, includeUjvPov |-> ujv,
      role |-> ro, useLLM |-> FALSE ]

BuildInputs ==
    { ValidInput(tt, se, ro, r, p, u) :
        tt \in { "honeymoon", "solo_wellness" },
        se \in { "late_september", "peak_summer" },
        ro \in { "finance", "reservations" },
        r \in BOOLEAN, p \in BOOLEAN, u \in BOOLEAN }

RetrieveInputs ==
    { ValidInput("honeymoon", "late_september", "reservations", TRUE, TRUE, TRUE) }

LoadedInit(inputs, hotels, sourceLists, pools) ==
    /\ pc = "match"
    /\ payload = Consumed
    /\ hasApiKey = FALSE
    /\ input \in inputs
    /\ thrown = NoError
    /\ hotel \in hotels
    /\ allSources \in sourceLists
    /\ allChunks \in pools
    /\ queryPlan = NoValue
    /\ semantic = NoSemantic
    /\ promoConflicts = << >>
    /\ sections = NoSections
    /\ llmOverrides = NoOverrides
    /\ trust = NoValue
    /\ http = NoValue
    /\ dataReads = 1
    /\ llmCalls = 0
    /\ llmOutcome = NoValue
    /\ draftContent = NoSections

InitBuild ==
    LoadedInit(BuildInputs, Hotels, SourceLists,
               { << c_nightlife, c_privacy, c_transfer, c_stack_named >> })

InitRetrieve ==
    LoadedInit(RetrieveInputs, Hotels, { SourceCatalogue },
               SeqsNoRepeat(RetrievalChunks, MaxChunks))

\* sources.json with other reliabilities: every sub-list of the catalogue,
\* each source rated at one of three levels
TrustSourceLists ==
    LET levels == { 55, 60, 92 }
        rated(list, rels) ==
            [ i \in DOMAIN list |-> [ list[i] EXCEPT !.reliability = rels[i] ] ]
    IN UNION { { rated(l, r) : r \in [ DOMAIN l -> levels ] } : l \in SourceLists }

\* the base record under a policy that no source of the catalogue exceeds
HotelRelaxed ==
    [ HotelBase EXCEPT
        !.policy.maxAgeDaysBySourceType =
            [ t \in DOMAIN HotelBase.policy.maxAgeDaysBySourceType |-> 400 ] ]

InitTrust ==
    LET inputs == { ValidInput("honeymoon", se, "reservations", TRUE, p, TRUE) :
                      se \in { "late_september", "peak_summer" }, p \in BOOLEAN }
    IN LoadedInit(inputs, { HotelBase, HotelLenient, HotelRelaxed }, TrustSourceLists,
                  { << c_nightlife, c_privacy, c_transfer, c_stack_named >> })

\* pools for the ranking of the retriever: every ordered pool of up to
\* MaxChunks chunks, a chunk that trips both detector rules among them
InitRank ==
    LoadedInit(RetrieveInputs, { HotelBase, HotelNightlife }, { SourceCatalogue },
               SeqsNoRepeat({ c_privacy, c_honeymoon, c_design, c_nightlife,
                              c_stack_named, c_both, c_other }, MaxChunks))

NextBuild == PlanQuery \/ Retrieve \/ BuildSections

NextTrust ==
    \/ PlanQuery
    \/ Retrieve
    \/ BuildSections
    \/ LlmSkipped
    \/ ApplyOverrides
    \/ ComputeTrust
    \/ RespondOk

SpecTrust == InitTrust /\ [][NextTrust]_vars

SpecBuild == InitBuild /\ [][NextBuild]_vars

SpecRetrieve == InitRetrieve /\ [][NextBuild]_vars

SpecRank == InitRank /\ [][NextBuild]_vars

-----------------------------------------------------------------------------
(* Properties *)

builtTextKeys == DOMAIN sections \cap Range(TextSectionKeys)

chunkIdsOf(chunks) == { chunks[i].chunkId : i \in DOMAIN chunks }
eventIdsOf(events) == { events[i].chunkId : i \in DOMAIN events }

overrideWasApplied(k) == k \in DOMAIN sections /\ sections[k].content # draftContent[k]

\* C1: in every section of the draft and of the final response, the status is
\* OK exactly when the citations list is non-empty, and INSUFFICIENT_SOURCES
\* otherwise; the override step does not disturb this.
C1_StatusIffCitations ==
    \A k \in DOMAIN sections :
        /\ sections[k].status \in { "OK", "INSUFFICIENT_SOURCES" }
        /\ sections[k].status = "OK" <=> Len(sections[k].citations) > 0

\* a final response with a cited section, an uncited section and an applied override
C1_Witness ==
    /\ pc = "done"
    /\ \E k \in DOMAIN sections : Len(sections[k].citations) > 0
    /\ \E k \in DOMAIN sections : Len(sections[k].citations) = 0
    /\ "promotions" \in DOMAIN sections
    /\ \E k \in builtTextKeys : overrideWasApplied(k)

\* C2: no chunk for which the Conflict Detector fires in a text section is
\* among that section's semanticChunksUsed, and the chunk ids used and the
\* chunk ids logged in conflictsIgnored are disjoint.
C2_ConflictingNeverUsed ==
    \A k \in builtTextKeys :
        /\ \A i \in DOMAIN sections[k].semanticChunksUsed :
              ~detectSemanticConflict(sections[k].semanticChunksUsed[i], k, hotel).found
        /\ chunkIdsOf(sections[k].semanticChunksUsed)
              \cap eventIdsOf(sections[k].conflictsIgnored) = {}

\* a section that both uses chunks and has logged a conflict
C2_Witness ==
    \E k \in builtTextKeys :
        /\ Len(sections[k].semanticChunksUsed) > 0
        /\ Len(sections[k].conflictsIgnored) > 0

\* the chunks of the queried hotel for which the detector fires in section k
conflictingChunks(k) ==
    { c \in Range(allChunks) :
        c.hotelId = hotel.hotelId /\ detectSemanticConflict(c, k, hotel).found }

\* C3 as stated: every chunk of the queried hotel for which the detector
\* fires in a text section is in that section's conflictsIgnored, whatever
\* its score and however many clean chunks rank above it.
C3_AlwaysLogged ==
    \A k \in builtTextKeys :
        \A c \in conflictingChunks(k) :
            c.chunkId \in eventIdsOf(sections[k].conflictsIgnored)

cleanBefore(scored, k, i) ==
    Cardinality({ j \in 1..(i - 1) :
                    ~detectSemanticConflict(scored[j].chunk, k, hotel).found })

\* C3 as amended: a conflicting chunk of the queried hotel is in the
\* section's conflictsIgnored when its keyword score for the section's terms
\* is positive and fewer than top-N clean chunks rank above it in the sorted
\* candidate list.
C3_LoggedWhenReached ==
    \A k \in builtTextKeys :
        LET scored == scoredCandidates(allChunks, hotel, termsFor(queryPlan, k))
        IN \A i \in DOMAIN scored :
              (/\ detectSemanticConflict(scored[i].chunk, k, hotel).found
               /\ cleanBefore(scored, k, i) < DefaultTopN)
              => scored[i].chunk.chunkId \in eventIdsOf(sections[k].conflictsIgnored)

\* a logged conflict that ranks below two clean chunks
C3_Witness ==
    \E k \in builtTextKeys :
        LET scored == scoredCandidates(allChunks, hotel, termsFor(queryPlan, k))
        IN \E i \in DOMAIN scored :
              /\ detectSemanticConflict(scored[i].chunk, k, hotel).found
              /\ cleanBefore(scored, k, i) = DefaultTopN - 1
              /\ scored[i].chunk.chunkId \in eventIdsOf(sections[k].conflictsIgnored)

\* the chunks of the queried hotel that make the stacking claim, in pool order
stackClaimChunks ==
    SelectSeq(allChunks, LAMBDA c :
        /\ c.hotelId = hotel.hotelId
        /\ hasPromoStackClaim(toLowerCase(c.text)))

ruleIdsOf(h) ==
    { h.contract.stackingRules[i].ruleId : i \in DOMAIN h.contract.stackingRules }

\* C4: the promotions section logs exactly one event per chunk of the queried
\* hotel that trips the stacking-claim rule against the canonical stacking
\* rules, whatever its score and rank; every event references a contract
\* stacking rule; no chunk is used and semanticChunksCount is 0.
C4_PromotionsConflicts ==
    "promotions" \in DOMAIN sections =>
        LET sec == sections["promotions"]
            tripping == IF \E i \in DOMAIN hotel.contract.stackingRules :
                               isBlockingRule(hotel.contract.stackingRules[i])
                        THEN stackClaimChunks ELSE << >>
        IN /\ Len(sec.conflictsIgnored) = Len(tripping)
           /\ \A i \in DOMAIN tripping :
                 sec.conflictsIgnored[i].chunkId = tripping[i].chunkId
           /\ \A i \in DOMAIN sec.conflictsIgnored :
                 /\ Len(sec.conflictsIgnored[i].structuredRuleRef) = 2
                 /\ sec.conflictsIgnored[i].structuredRuleRef[1] = "contract.stackingRules."
                 /\ sec.conflictsIgnored[i].structuredRuleRef[2] \in ruleIdsOf(hotel)
           /\ sec.semanticChunksUsed = << >>
           /\ sec.retrievalBreakdown.semanticChunksCount = 0

\* a promotions section that logs a stacking conflict for a chunk which the
\* text sections never reached, next to a chunk that trips only the
\* positioning rule
C4_Witness ==
    /\ "promotions" \in DOMAIN sections
    /\ Len(sections["promotions"].conflictsIgnored) > 0
    /\ \E c \in Range(allChunks) :
          /\ c.chunkId \in eventIdsOf(sections["promotions"].conflictsIgnored)
          /\ c.chunkId \notin eventIdsOf(sections["positioning"].conflictsIgnored)
    /\ \E c \in conflictingChunks("positioning") :
          c.chunkId \notin eventIdsOf(sections["promotions"].conflictsIgnored)

expectedSectionKeys(inp) ==
    { "positioning", "travelerFit" }
      \cup { k \in { "risks", "promotions", "ujvPov" } :
               \/ k = "risks" /\ inp.includeRisks
               \/ k = "promotions" /\ inp.includePromotions
               \/ k = "ujvPov" /\ inp.includeUjvPov }

\* C5: once the sections are built, and in the response sent, positioning
\* and travelerFit are present and risks, promotions and ujvPov are present
\* exactly when their flag is true.
C5_SectionsFollowFlags ==
    /\ pc \in { "llm", "apply", "trust", "return" } =>
          DOMAIN sections = expectedSectionKeys(input)
    /\ (pc = "done" /\ http.result) =>
          /\ DOMAIN sections = expectedSectionKeys(input)
          /\ (~input.includeRisks /\ ~input.includePromotions /\ ~input.includeUjvPov)
                => DOMAIN sections = { "positioning", "travelerFit" }

\* a response with no optional section
C5_Witness ==
    /\ pc = "done"
    /\ http.status = 200
    /\ DOMAIN sections = { "positioning", "travelerFit" }

\* the canonical fact strings a text section is built from
factsOf(k) ==
    CASE k = "positioning" -> positioningFacts(hotel, input)
      [] k = "travelerFit" -> travelerFitFacts(hotel, input)
      [] k = "risks" -> risksFacts(hotel, input)
      [] k = "ujvPov" -> hotel.ujvPov.talkTrack

leaksNothing(k) ==
    /\ \A i \in DOMAIN factsOf(k) : ~Includes(sections[k].content, factsOf(k)[i])
    /\ \A i \in DOMAIN sections[k].semanticChunksUsed :
          ~Includes(sections[k].content, sections[k].semanticChunksUsed[i].title)

\* C6 as stated: the content of an INSUFFICIENT_SOURCES text section equals
\* the fixed insufficiency sentence and holds no fact and no chunk title.
C6_ContentIsSentence ==
    \A k \in builtTextKeys :
        sections[k].status = "INSUFFICIENT_SOURCES" =>
            /\ sections[k].content = insufficientText
            /\ leaksNothing(k)

\* C6 as amended: the content of an INSUFFICIENT_SOURCES text section is the
\* fixed insufficiency sentence rendered as a one-item bullet list
\* ("- Insufficient verified sources to answer this section.") and holds no
\* fact and no chunk title.
C6_ContentIsBulletSentence ==
    \A k \in builtTextKeys :
        sections[k].status = "INSUFFICIENT_SOURCES" =>
            /\ sections[k].content =
                  << "- ", "Insufficient verified sources to answer this section." >>
            /\ leaksNothing(k)

\* an INSUFFICIENT_SOURCES section in a final response, with clean chunks
\* retrieved, facts available and an override offered for it
C6_Witness ==
    /\ pc = "done"
    /\ \E k \in builtTextKeys :
          /\ sections[k].status = "INSUFFICIENT_SOURCES"
          /\ Len(sections[k].semanticChunksUsed) > 0
          /\ Len(factsOf(k)) > 0
          /\ k \in DOMAIN llmOverrides
          /\ llmOverrides[k] # << >>

\* the booking-value figure, as the builder formats it or as plain digits
containsFigure(content) ==
    \/ Includes(content, toLocaleString(hotel.bookingIntelligence.avgBookingValueUsd))
    \/ Includes(content, StringOf(hotel.bookingIntelligence.avgBookingValueUsd))

\* C7 as stated: travelerFit content holds the booking-value figure exactly
\* when role is finance, also when travelerFit has no resolvable citation.
C7_FigureIffFinance ==
    "travelerFit" \in DOMAIN sections =>
        (containsFigure(sections["travelerFit"].content) <=> input.role = "finance")

\* C7 as amended: as long as no narrative override has replaced the drafted
\* travelerFit content, it holds the booking-value figure exactly when role
\* is finance and the section's status is OK.
C7_FigureIffFinanceAndOk ==
    ("travelerFit" \in DOMAIN sections /\ ~overrideWasApplied("travelerFit")) =>
        (containsFigure(sections["travelerFit"].content)
           <=> (input.role = "finance" /\ sections["travelerFit"].status = "OK"))

\* a finance response that shows the figure
C7_Witness ==
    /\ pc = "done"
    /\ "travelerFit" \in DOMAIN sections
    /\ input.role = "finance"
    /\ sections["travelerFit"].status = "OK"
    /\ containsFigure(sections["travelerFit"].content)

\* C8 as stated: a validation failure is answered with a 4xx status that
\* carries the validation message and is not the generic failure outcome.
C8_ValidationIsClientError ==
    (pc = "done" /\ ~thrown.none /\ thrown.message \in ValidationMessages) =>
        /\ http.status \in 400..499
        /\ http.details = thrown.message
        /\ http.error # "QUERY_FAILED"

\* C9: data is read only after validation has succeeded, and a request
\* that fails validation reads no data, builds no section and calls no
\* narrative service.
C9_ValidationBeforeData ==
    /\ dataReads > 0 => input # NoValue
    /\ (~thrown.none /\ thrown.message \in ValidationMessages) =>
          /\ dataReads = 0
          /\ hotel = NoValue
          /\ sections = NoSections
          /\ llmCalls = 0

\* a validation failure answered with nothing read
C9_Witness ==
    /\ pc = "done"
    /\ ~thrown.none
    /\ thrown.message = "Invalid season"
    /\ dataReads = 0

\* C10: a valid request for a hotel id other than the canonical record's is
\* answered 404 NOT_FOUND, never QUERY_FAILED and never with a response
\* object; no plan or section is built and no narrative call is made for it.
C10_UnknownHotelIsNotFound ==
    (input # NoValue /\ hotel # NoValue /\ hotel.hotelId # input.hotelId) =>
        /\ queryPlan = NoValue
        /\ sections = NoSections
        /\ llmCalls = 0
        /\ pc \in { "match", "caught", "done" }
        /\ pc = "caught" => (thrown.hasStatus /\ thrown.status = 404)
        /\ pc = "done" => /\ http.status = 404
                          /\ http.error = "NOT_FOUND"
                          /\ ~http.result

\* an unknown hotel id answered
C10_Witness ==
    /\ pc = "done"
    /\ input # NoValue
    /\ hotel # NoValue
    /\ hotel.hotelId # input.hotelId
    /\ http.status = 404

\* C11: the override step changes nothing but the content field of text
\* sections whose status is OK: the set of sections, and every section's
\* status, citations, semanticChunksUsed, conflictsIgnored and
\* retrievalBreakdown stay as they were; a section that is not OK and the
\* promotions section stay as they were altogether.
C11_OverrideFrame ==
    [][pc = "apply" =>
         /\ DOMAIN sections' = DOMAIN sections
         /\ \A k \in DOMAIN sections :
               /\ [ sections'[k] EXCEPT !.content = sections[k].content ] = sections[k]
               /\ (sections[k].status # "OK" \/ k = "promotions")
                     => sections'[k] = sections[k]]_vars

\* after the override step: the service answered with a text for every
\* section, promotions included; one section took its text, and a section
\* that is INSUFFICIENT_SOURCES was offered one
C11_Witness ==
    /\ pc = "trust"
    /\ llmOutcome # NoValue
    /\ "promotions" \in DOMAIN llmOutcome.parsed
    /\ "promotions" \in DOMAIN sections
    /\ \E k \in builtTextKeys : overrideWasApplied(k)
    /\ \E k \in builtTextKeys :
          /\ sections[k].status = "INSUFFICIENT_SOURCES"
          /\ k \in DOMAIN llmOverrides
          /\ llmOverrides[k] # << >>

\* the ways the narrative call can fail to give an object
failedOutcomeKinds == { "throws", "not_ok", "no_content", "unparseable", "not_object" }

\* the narrative keys for which the service's answer has no string value
keysWithoutText ==
    { k \in Range(TextSectionKeys) :
        k \notin DOMAIN llmOutcome.parsed \/ llmOutcome.parsed[k].t # "string" }

\* C12: when the narrative call throws, answers with a non-OK transport
\* result, with no message content, or with content that does not parse to
\* an object with string values, the override set is empty, nothing is
\* thrown, the request is answered 200 and every section's content is the
\* drafted content; when the answer is an object, a section whose key has no
\* string value keeps its drafted content while an OK section whose key has
\* a non-empty string takes that string.
C12_FailedCallFallsBack ==
    llmOutcome # NoValue =>
        /\ thrown = NoError
        /\ pc \in { "apply", "trust", "return", "done" }
        /\ pc = "done" => (http.status = 200 /\ http.result)
        /\ (llmOutcome.kind \in failedOutcomeKinds
              \/ keysWithoutText = Range(TextSectionKeys))
             => /\ llmOverrides = NoOverrides
                /\ \A k \in DOMAIN sections : sections[k].content = draftContent[k]
        /\ \A k \in builtTextKeys \cap keysWithoutText :
              /\ k \notin DOMAIN llmOverrides
              /\ sections[k].content = draftContent[k]
        /\ pc \in { "trust", "return", "done" } =>
              \A k \in builtTextKeys \ keysWithoutText :
                  (sections[k].status = "OK" /\ llmOutcome.parsed[k].s # << >>)
                     => sections[k].content = llmOutcome.parsed[k].s

\* a request answered 200 with its drafted content after the narrative call threw
C12_Witness ==
    /\ pc = "done"
    /\ llmOutcome # NoValue
    /\ llmOutcome.kind = "throws"
    /\ http.status = 200
    /\ \E k \in builtTextKeys :
          sections[k].status = "OK" /\ sections[k].content = draftContent[k]

LowScoreReason == "Reason: Evidence Strength below threshold (0.6). Current score "

\* the reason text of the first trigger that holds, in the priority order
firstReason(low, promotionsMissing, travelerFitInsufficient, policyWarn) ==
    IF low THEN << LowScoreReason, ToString(trust.evidenceStrengthScore) >>
    ELSE IF promotionsMissing
    THEN << "Reason: Promotions requested but no verified promotions/contract sources were found." >>
    ELSE IF travelerFitInsufficient
    THEN << "Reason: Traveler Fit section lacks sufficient verified evidence." >>
    ELSE IF policyWarn THEN << "Reason: Policy freshness WARN." >>
    ELSE << >>

promotionsWithoutCitations ==
    /\ input.includePromotions
    /\ ("promotions" \in DOMAIN sections => sections["promotions"].citations = << >>)

\* C13 as stated, on the response: escalationNeeded holds exactly when the
\* reported score is below 0.60, or promotions were requested and have no
\* citation, or travelerFit is INSUFFICIENT_SOURCES, or the freshness policy
\* is WARN; escalationReason names the first of these that holds and is
\* empty exactly when escalationNeeded is false.
C13_EscalationFollowsTriggers ==
    pc \in { "return", "done" } /\ thrown = NoError =>
        LET low == trust.evidenceStrengthScore < 60
            pm == promotionsWithoutCitations
            tf == sections["travelerFit"].status = "INSUFFICIENT_SOURCES"
            pw == trust.guardrails.withinFreshnessPolicy = "WARN"
        IN /\ trust.escalationNeeded <=> (low \/ pm \/ tf \/ pw)
           /\ trust.escalationReason = firstReason(low, pm, tf, pw)
           /\ (trust.escalationReason = << >>) <=> ~trust.escalationNeeded

\* the citations and the clean chunks the score of the response is computed from
responseCitations == FlatMap(sectionCitations, requestedSectionsOf(sections))
responseChunks == FlatMap(sectionChunks, requestedSectionsOf(sections))
responseRelSum ==
    SumSeq([ i \in DOMAIN responseCitations |-> responseCitations[i].reliability ])
responseRecent ==
    \E i \in DOMAIN responseCitations : daysOld(responseCitations[i].date) <= 120

\* a / da <= b / db, for denominators that are multiples of scoreDen(0)
fractionLeq(a, da, b, db) ==
    a * (db \div scoreDen(0)) <= b * (da \div scoreDen(0))

\* C14: the reported score lies in [0,1]; and with the average reliability,
\* the recency flag and the chunk count of the response held fixed, the
\* score lies in [0,1] for every citation count up to MaxCitations and does
\* not decrease when the count grows by one.  (The average is held fixed
\* where it is a whole percentage, so that count * average is exact.)
C14_ScoreBoundedAndMonotonic ==
    pc \in { "return", "done" } /\ thrown = NoError =>
        LET n == Len(responseCitations)
            recent == responseRecent
            sem == Len(responseChunks)
            at(m, avg) == scoreNum(m, m * avg, recent, sem)
        IN /\ trust.evidenceStrengthScore \in 0..100
           /\ (n > 0 /\ responseRelSum % n = 0) =>
                 LET avg == responseRelSum \div n
                 IN /\ \A m \in 0..MaxCitations :
                          at(m, avg) >= 0 /\ at(m, avg) <= scoreDen(m)
                    /\ \A m \in 0..(MaxCitations - 1) :
                          fractionLeq(at(m, avg), scoreDen(m),
                                      at(m + 1, avg), scoreDen(m + 1))

\* a response whose citations all carry the same reliability, for which
\* the score grows from one citation to two and no longer from eight to nine
C14_Witness ==
    /\ pc = "done"
    /\ thrown = NoError
    /\ Len(responseCitations) > 1
    /\ responseRelSum % Len(responseCitations) = 0
    /\ LET avg == responseRelSum \div Len(responseCitations)
           at(m) == scoreNum(m, m * avg, responseRecent, Len(responseChunks))
       IN /\ ~fractionLeq(at(2), scoreDen(2), at(1), scoreDen(1))
          /\ fractionLeq(at(9), scoreDen(9), at(8), scoreDen(8))

\* the entries of a content list agree with the canonical list on the given fields
sameOn(fields, listed, canonical) ==
    /\ Len(listed) = Len(canonical)
    /\ \A i \in DOMAIN canonical :
          /\ DOMAIN listed[i] = fields
          /\ \A f \in fields : listed[i][f] = canonical[i][f]

\* C16: an OK promotions section lists every canonical promotion (id, name,
\* description, validity, eligibility) and every canonical stacking rule
\* (id, text, allowsCombination, appliesToPromoIds) in canonical order with
\* these fields as they are in the hotel record; an INSUFFICIENT_SOURCES
\* promotions section has empty promos and stackingRules.
C16_PromotionsPassThrough ==
    "promotions" \in DOMAIN sections =>
        LET sec == sections["promotions"]
        IN /\ sec.status = "OK" =>
                 /\ sameOn({ "promoId", "name", "description", "validity", "eligibility" },
                           sec.content.promos, hotel.promotions)
                 /\ sameOn({ "ruleId", "text", "allowsCombination", "appliesToPromoIds" },
                           sec.content.stackingRules, hotel.contract.stackingRules)
           /\ sec.status = "INSUFFICIENT_SOURCES" =>
                 /\ sec.content.promos = << >>
                 /\ sec.content.stackingRules = << >>

\* an OK promotions section with two promotions and two stacking rules
C16_Witness ==
    /\ "promotions" \in DOMAIN sections
    /\ sections["promotions"].status = "OK"
    /\ Len(sections["promotions"].content.promos) = 2
    /\ Len(sections["promotions"].content.stackingRules) = 2
    /\ sections["promotions"].content.promos[1].promoId = "promo_4nf"

\* the (section, item id) pairs of the response whose item is a citation or
\* a used chunk older, in whole days, than the policy's limit for its type
lateItems ==
    LET policy == hotel.policy.maxAgeDaysBySourceType
        tooOld(type, date) == type \in DOMAIN policy /\ Now - date > policy[type]
        lateCitations(k) ==
            { i \in DOMAIN sections[k].citations :
                tooOld(sections[k].citations[i].type, sections[k].citations[i].date) }
        lateChunks(k) ==
            { i \in DOMAIN sections[k].semanticChunksUsed :
                tooOld(sections[k].semanticChunksUsed[i].sourceType,
                       sections[k].semanticChunksUsed[i].date) }
    IN UNION { { << k, sections[k].citations[i].sourceId >> : i \in lateCitations(k) }
               \cup { << k, sections[k].semanticChunksUsed[i].chunkId >> :
                        i \in lateChunks(k) } :
               k \in DOMAIN sections }

\* C17: policyWarnings holds one warning for each late (section, item) pair
\* and no other, naming the section and the item; policyCompliance and
\* guardrails.withinFreshnessPolicy are WARN when there is a warning and
\* PASS when there is none.
C17_WarningsMatchLateItems ==
    pc \in { "return", "done" } /\ thrown = NoError =>
        LET warnings == trust.guardrails.policyWarnings
            verdict == IF warnings # << >> THEN "WARN" ELSE "PASS"
        IN /\ { << warnings[i][1], warnings[i][3] >> : i \in DOMAIN warnings } = lateItems
           /\ Len(warnings) = Cardinality(lateItems)
           /\ trust.policyCompliance = verdict
           /\ trust.guardrails.withinFreshnessPolicy = verdict

\* a response with a warning for a citation and one for a used chunk, next
\* to a citation that draws no warning, and a citation exactly as old as
\* its limit that draws none either
C17_Witness ==
    /\ pc = "done"
    /\ thrown = NoError
    /\ \E k \in DOMAIN sections :
          \E i \in DOMAIN sections[k].citations :
              /\ sections[k].citations[i].type \in DOMAIN hotel.policy.maxAgeDaysBySourceType
              /\ Now - sections[k].citations[i].date
                    = hotel.policy.maxAgeDaysBySourceType[sections[k].citations[i].type]
              /\ << k, sections[k].citations[i].sourceId >> \notin lateItems
    /\ \E k \in DOMAIN sections :
          /\ \E i \in DOMAIN sections[k].citations :
                << k, sections[k].citations[i].sourceId >> \in lateItems
          /\ \E i \in DOMAIN sections[k].citations :
                << k, sections[k].citations[i].sourceId >> \notin lateItems
    /\ \E k \in DOMAIN sections :
          \E i \in DOMAIN sections[k].semanticChunksUsed :
              << k, sections[k].semanticChunksUsed[i].chunkId >> \in lateItems

\* the number of conflict events logged over every produced section
conflictEventsLogged ==
    LET keys == presentKeys(sections)
    IN SumSeq([ i \in DOMAIN keys |-> Len(sections[keys[i]].conflictsIgnored) ])

\* C18: in every response the conflict bookkeeping agrees with the lists it
\* counts: in each produced section retrievalBreakdown.conflictsIgnoredCount
\* is the length of conflictsIgnored, overridesApplied is true exactly when
\* that length is positive and semanticChunksCount is the length of
\* semanticChunksUsed; trust.stats.conflictsIgnored is the sum of the
\* sections' conflictsIgnored lengths and canonicalOverridesNotes is true
\* exactly when that sum is positive.
C18_ConflictBookkeeping ==
    pc \in { "return", "done" } /\ thrown = NoError =>
        /\ \A k \in DOMAIN sections :
              LET rb == sections[k].retrievalBreakdown
              IN /\ rb.conflictsIgnoredCount = Len(sections[k].conflictsIgnored)
                 /\ rb.overridesApplied <=> Len(sections[k].conflictsIgnored) > 0
                 /\ rb.semanticChunksCount = Len(sections[k].semanticChunksUsed)
        /\ trust.stats.conflictsIgnored = conflictEventsLogged
        /\ trust.guardrails.canonicalOverridesNotes <=> conflictEventsLogged > 0

\* a response in which two sections logged conflicts and a third used clean
\* chunks without logging any
C18_Witness ==
    /\ pc = "done"
    /\ thrown = NoError
    /\ \E j, k \in DOMAIN sections :
          /\ j # k
          /\ Len(sections[j].conflictsIgnored) > 0
          /\ Len(sections[k].conflictsIgnored) > 0
    /\ \E k \in DOMAIN sections :
          /\ sections[k].conflictsIgnored = << >>
          /\ Len(sections[k].semanticChunksUsed) > 0
    /\ trust.stats.conflictsIgnored >= 2
    /\ trust.guardrails.canonicalOverridesNotes

\* the value a flag of the body stands for: itself when it is a boolean, the
\* default when it is absent or of another type
flagOr(v, default) == IF v \in { JBool(TRUE), JBool(FALSE) } THEN v = JBool(TRUE) ELSE default

\* the four checked fields of a body are all acceptable
checkedFieldsValid(body) ==
    /\ body.hotelId.t = "string" /\ body.hotelId.s # ""
    /\ body.travelerType.t = "string" /\ body.travelerType.s \in Range(travelerTypes)
    /\ body.season.t = "string" /\ body.season.s \in Range(seasonTypes)
    /\ body.role.t = "string" /\ body.role.s \in Range(roleTypes)

\* C19: after validation succeeds, includeRisks, includePromotions and
\* includeUjvPov are the supplied value when it is a boolean and true when
\* it is absent or not a boolean, and useLLM is the supplied value when it
\* is a boolean and false otherwise; a body that validation rejects has a
\* bad hotelId, travelerType, season or role, whatever its four flags hold.
C19_BooleanDefaults ==
    /\ pc = "load" =>
          /\ payload.kind = "object"
          /\ input.includeRisks = flagOr(payload.body.includeRisks, TRUE)
          /\ input.includePromotions = flagOr(payload.body.includePromotions, TRUE)
          /\ input.includeUjvPov = flagOr(payload.body.includeUjvPov, TRUE)
          /\ input.useLLM = flagOr(payload.body.useLLM, FALSE)
    /\ (pc = "caught" /\ payload.kind = "object"
          /\ thrown.message \in ValidationMessages)
          => ~checkedFieldsValid(payload.body)

\* a validated request whose body held a number, a string, an absent field
\* and a string in its four flags
C19_Witness ==
    /\ pc = "load"
    /\ payload.kind = "object"
    /\ payload.body.includeRisks = JNumber
    /\ payload.body.includePromotions = JStr("false")
    /\ payload.body.includeUjvPov = JUndefined
    /\ payload.body.useLLM = JStr("yes")
    /\ input.includeRisks /\ input.includePromotions /\ input.includeUjvPov
    /\ ~input.useLLM

\* the produced sections with the content the builders drafted
draftSections ==
    [ k \in DOMAIN sections |-> [ sections[k] EXCEPT !.content = draftContent[k] ] ]

\* C20: the trust payload of a response is the one computed from the
\* sections as drafted, before the Narrative Override Gate replaced any
\* content, so no field of it depends on text the narrative service returned.
C20_TrustPrecedesOverrides ==
    pc \in { "return", "done" } /\ thrown = NoError =>
        trust = computeTrust(hotel, input, draftSections, sourceMapOf(allSources))

\* the citations of the response with each source kept once, at its first
\* occurrence
uniqueResponseCitations ==
    SelectSeq([ i \in DOMAIN responseCitations |->
                  IF \E j \in 1..(i - 1) :
                        responseCitations[j].sourceId = responseCitations[i].sourceId
                  THEN NoValue ELSE responseCitations[i] ],
              LAMBDA c : c # NoValue)

\* C21: the citation count and the average reliability that enter the
\* evidence-strength score are taken over the unique citations of the
\* produced sections, a source cited by several sections counting once: the
\* reported score is the score of the unique citations.
C21_ScoreOverUniqueCitations ==
    pc \in { "return", "done" } /\ thrown = NoError =>
        LET cites == uniqueResponseCitations
            n == Len(cites)
            relSum == SumSeq([ i \in DOMAIN cites |-> cites[i].reliability ])
        IN trust.evidenceStrengthScore =
              toFixed2(scoreNum(n, relSum, responseRecent, Len(responseChunks)),
                       scoreDen(n))

\* C22: in every response evidenceStrengthLabel is the label the thresholds
\* give the reported two-decimal score (High from 0.75, Medium from 0.60,
\* Low below), and the low-score escalation reason is reported only when the
\* reported score is below 0.60.
C22_LabelOfReportedScore ==
    pc \in { "return", "done" } /\ thrown = NoError =>
        LET reported == trust.evidenceStrengthScore
        IN /\ trust.evidenceStrengthLabel =
                 (IF reported >= 75 THEN "High"
                  ELSE IF reported >= 60 THEN "Medium" ELSE "Low")
           /\ (trust.escalationReason # << >>
                 /\ Head(trust.escalationReason) = LowScoreReason)
                 => reported < 60

\* the keyword score of every chunk of the pool for the terms
poolScores(terms) ==
    [ c \in Range(allChunks) |-> keywordScore(c, terms) ] @@ [ c \in {} |-> 0 ]

\* chunk c outranks chunk u under the scores sc: a higher keyword score, or
\* the same score and a higher reliability
outranks(c, u, sc) ==
    \/ sc[c] > sc[u]
    \/ (sc[c] = sc[u] /\ c.reliability > u.reliability)

\* the chunks of the pool that may be used in section k: of the queried
\* hotel, with a positive score, and clean
eligibleChunks(k, sc) ==
    { c \in Range(allChunks) :
        /\ c.hotelId = hotel.hotelId
        /\ sc[c] > 0
        /\ ~detectSemanticConflict(c, k, hotel).found }

\* what C23 says of a used list returned for section k and topN
topRankedClean(used, k, sc, eligible, topN) ==
    /\ Len(used) <= topN
    /\ Len(used) = Min(topN, Cardinality(eligible))
    /\ \A i \in DOMAIN used :
          /\ used[i].hotelId = hotel.hotelId
          /\ sc[used[i]] > 0
    /\ \A i, j \in DOMAIN used : i < j => ~outranks(used[j], used[i], sc)
    /\ Range(used) \subseteq eligible
    /\ \A c \in eligible \ Range(used) :
          \A i \in DOMAIN used : ~outranks(c, used[i], sc)

C24_OneCallIffAssisted ==
    /\ llmCalls <= 1
    /\ llmCalls = 1 =>
          /\ input.useLLM /\ hasApiKey
          /\ queryPlan.retrievalMode = "llm_assisted"
    /\ (pc \in { "apply", "trust", "return", "done" } /\ thrown = NoError) =>
          /\ llmCalls = 1 <=> (input.useLLM /\ hasApiKey)
          /\ queryPlan.retrievalMode \in { "llm_assisted", "mock_synthesis" }
          /\ queryPlan.retrievalMode = "llm_assisted" <=> llmCalls = 1
          /\ queryPlan.retrievalMode = "mock_synthesis" <=> llmCalls = 0

\* a finished request whose single call to the service failed and was not
\* repeated
C24_Witness ==
    /\ pc = "done"
    /\ thrown = NoError
    /\ input.useLLM /\ hasApiKey
    /\ llmCalls = 1
    /\ llmOutcome.kind \in failedOutcomeKinds
    /\ queryPlan.retrievalMode = "llm_assisted"

\* the backing source ids of the sections whose builders take them straight
\* from the hotel record
backingIds ==
    [ positioning |-> hotel.positioning.sourceIds,
      ujvPov |-> hotel.ujvPov.sourceIds,
      promotions |-> FlatMap(promoSourceIds, hotel.promotions)
                       \o hotel.contract.sourceIds
                       \o FlatMap(ruleSourceIds, hotel.contract.stackingRules) ]

\* cites holds one citation per distinct id of ids that the lookup resolves,
\* in the order of the ids' first occurrences
distinctResolved(cites, ids, lookup) ==
    LET out == [ i \in DOMAIN cites |-> cites[i].sourceId ]
        first(id) == CHOOSE i \in DOMAIN ids :
                        ids[i] = id /\ \A j \in 1..(i - 1) : ids[j] # id
    IN /\ \A i, j \in DOMAIN out : i # j => out[i] # out[j]
       /\ Range(out) = Range(ids) \cap DOMAIN lookup
       /\ \A i, j \in DOMAIN out : i < j => first(out[i]) < first(out[j])
       /\ \A i \in DOMAIN cites : cites[i] = toCitation(lookup[out[i]])

\* C25: collectCitations returns one citation per distinct id that the
\* lookup resolves, in first-occurrence order, no two citations of a
\* section sharing a sourceId; ids with no source record are dropped.
\* Stated of the citations of every built section, of the backing lists of
\* positioning, ujvPov and promotions, and of each such list doubled and
\* reversed.
C25_CitationsDistinctResolved ==
    \A lookup \in { sourceMapOf(allSources) } :
        \A k \in DOMAIN sections :
            /\ \A i, j \in DOMAIN sections[k].citations :
                  i # j => sections[k].citations[i].sourceId
                             # sections[k].citations[j].sourceId
            /\ \A i \in DOMAIN sections[k].citations :
                  sections[k].citations[i].sourceId \in DOMAIN lookup
            /\ k \in DOMAIN backingIds =>
                  LET ids == backingIds[k]
                      reversed == [ i \in DOMAIN ids |-> ids[Len(ids) + 1 - i] ]
                  IN /\ distinctResolved(sections[k].citations, ids, lookup)
                     /\ \A v \in { ids \o ids, reversed } :
                           distinctResolved(collectCitations(v, lookup), v, lookup)

\* a built section whose backing list repeats an id and names an id without
\* a source record, next to an id that resolves
C25_Witness ==
    /\ "positioning" \in DOMAIN sections
    /\ LET ids == hotel.positioning.sourceIds
       IN /\ \E i, j \in DOMAIN ids : i # j /\ ids[i] = ids[j]
          /\ \E i \in DOMAIN ids : ids[i] \notin DOMAIN sourceMapOf(allSources)
          /\ Len(sections["positioning"].citations) = 1
    /\ "promotions" \in DOMAIN sections
    /\ Len(sections["promotions"].citations) = 2
    /\ Len(backingIds["promotions"]) > 2

\* C26: sensitiveDataRestrictedByRole is true whenever role is finance, and
\* for every other role it is false whenever the final travelerFit content
\* holds the booking-value figure in the form in which the traveler-fit
\* builder renders it.
C26_GuardrailSeesFormattedFigure ==
    pc \in { "return", "done" } /\ thrown = NoError =>
        /\ input.role = "finance" => trust.guardrails.sensitiveDataRestrictedByRole
        /\ (/\ input.role # "finance"
            /\ Includes(sections["travelerFit"].content,
                        toLocaleString(hotel.bookingIntelligence.avgBookingValueUsd)))
              => ~trust.guardrails.sensitiveDataRestrictedByRole

\* chunk c makes the stacking claim and the hotel has a canonical stacking
\* rule that forbids it
tripsStackingRule(c) ==
    /\ hasPromoStackClaim(toLowerCase(c.text))
    /\ \E i \in DOMAIN hotel.contract.stackingRules :
          isBlockingRule(hotel.contract.stackingRules[i])

\* chunk c claims nightlife and the hotel is not tagged nightlife
tripsPositioningRule(c) ==
    /\ claimsNightlife(toLowerCase(c.text))
    /\ << "nightlife" >> \notin Range(hotel.positioningTags)

\* C27: detectSemanticConflict returns at most one event per chunk and
\* section: a chunk that trips both the stacking-claim rule (with a matching
\* canonical rule) and the positioning rule in the positioning section
\* yields the stacking-claim event only; the positioning rule fires in no
\* section other than positioning; the stacking-claim rule fires in every
\* section, and only when a canonical stacking rule matches. No list of
\* the retrieval step logs two events for one chunk.
C27_OneEventPerChunkAndSection ==
    pc = "build" =>
        /\ \A c \in Range(allChunks) :
              \A stack \in { tripsStackingRule(c) } :
              \A positioning \in { tripsPositioningRule(c) } :
              \A k \in Range(SectionKeyOrder) :
              \A r \in { detectSemanticConflict(c, k, hotel) } :
                 /\ r.found <=> (stack \/ (positioning /\ k = "positioning"))
                 /\ r.found => r.event.chunkId = c.chunkId
                 /\ stack =>
                       /\ r.event.reason = StackReason
                       /\ r.event.structuredRuleRef[1] = "contract.stackingRules."
                 /\ (r.found /\ ~stack) =>
                       /\ k = "positioning"
                       /\ r.event.reason = PositioningReason
                       /\ r.event.structuredRuleRef = << "hotel.positioningTags" >>
        /\ \A k \in DOMAIN semantic :
              \A i, j \in DOMAIN semantic[k].conflictsIgnored :
                 i # j => semantic[k].conflictsIgnored[i].chunkId
                            # semantic[k].conflictsIgnored[j].chunkId
        /\ \A i, j \in DOMAIN promoConflicts :
              i # j => promoConflicts[i].chunkId # promoConflicts[j].chunkId

\* a retrieval whose positioning list logged one stacking-claim event for a
\* chunk that trips both rules
C27_Witness ==
    /\ pc = "build"
    /\ \E c \in Range(allChunks) :
          /\ c.hotelId = hotel.hotelId
          /\ tripsStackingRule(c)
          /\ tripsPositioningRule(c)
          /\ \E i \in DOMAIN semantic["positioning"].conflictsIgnored :
                /\ semantic["positioning"].conflictsIgnored[i].chunkId = c.chunkId
                /\ semantic["positioning"].conflictsIgnored[i].reason = StackReason

\* terms is the global terms followed by the keywords, duplicates removed:
\* no term twice, the global terms first, then the keywords that are new,
\* in their order
globalThenKeywords(terms, global, keywords) ==
    LET rest == SubSeq(terms, Len(global) + 1, Len(terms))
        first(t) == CHOOSE i \in DOMAIN keywords :
                       keywords[i] = t /\ \A j \in 1..(i - 1) : keywords[j] # t
    IN /\ \A i, j \in DOMAIN terms : i # j => terms[i] # terms[j]
       /\ Len(terms) >= Len(global)
       /\ SubSeq(terms, 1, Len(global)) = global
       /\ Range(rest) = Range(keywords) \ Range(global)
       /\ \A i, j \in DOMAIN rest : i < j => first(rest[i]) < first(rest[j])

\* the plan lists the keys in the fixed order and has terms for them
planCovers(plan, keys) ==
    /\ plan.sectionsRequested = SelectSeq(SectionKeyOrder, LAMBDA k : k \in keys)
    /\ DOMAIN plan.queryTerms.perSection = keys
    /\ \A k \in keys :
          globalThenKeywords(plan.queryTerms.perSection[k], plan.queryTerms.global,
                             sectionKeywords[k])

\* C28: in every response queryPlan.sectionsRequested lists exactly the
\* keys present in sections, in the order positioning, travelerFit, risks,
\* promotions, ujvPov, and queryTerms.perSection has a term list for exactly
\* those keys, each the global terms followed by the section's fixed
\* keywords with duplicates removed. The plan is also built for the hotel
\* renamed to one of the keywords, where a keyword repeats a global term.
C28_PlanMatchesSections ==
    /\ (pc \in { "return", "done" } /\ thrown = NoError) =>
          planCovers(queryPlan, DOMAIN sections)
    /\ pc = "retrieve" =>
          \A h \in { hotel, [ hotel EXCEPT !.name = << "privacy" >> ],
                      [ hotel EXCEPT !.region = << "risk" >>,
                                     !.name = << "risk" >> ] } :
              planCovers(buildQueryPlan(h, input, hasApiKey), builtKeys(input))

\* a response with risks and ujvPov but no promotions, planned so
C28_Witness ==
    /\ pc = "done"
    /\ thrown = NoError
    /\ DOMAIN sections = { "positioning", "travelerFit", "risks", "ujvPov" }
    /\ queryPlan.sectionsRequested = << "positioning", "travelerFit", "risks", "ujvPov" >>
    /\ Len(queryPlan.queryTerms.perSection["risks"])
          = Len(queryPlan.queryTerms.global) + Len(sectionKeywords["risks"])

\* C29: allSectionsBackedByCitations is true exactly when every produced
\* section has status OK, which is exactly when every produced section has
\* at least one citation; one INSUFFICIENT_SOURCES section among those
\* requested makes it false.
C29_BackedIffAllOk ==
    pc \in { "return", "done" } /\ thrown = NoError =>
        /\ trust.guardrails.allSectionsBackedByCitations
              <=> \A k \in DOMAIN sections : sections[k].status = "OK"
        /\ trust.guardrails.allSectionsBackedByCitations
              <=> \A k \in DOMAIN sections : Len(sections[k].citations) > 0
        /\ (\E k \in DOMAIN sections : sections[k].status = "INSUFFICIENT_SOURCES")
              => ~trust.guardrails.allSectionsBackedByCitations

\* a response whose promotions section alone lacks sources, and whose
\* guardrail is false
C29_Witness ==
    /\ pc = "done"
    /\ thrown = NoError
    /\ "promotions" \in DOMAIN sections
    /\ \A k \in DOMAIN sections :
          sections[k].status = "INSUFFICIENT_SOURCES" <=> k = "promotions"
    /\ ~trust.guardrails.allSectionsBackedByCitations

\* the four ways a request can end
endsInResponse == http.result /\ http.status = 200 /\ thrown = NoError
endsInValidationFailure == ~http.result /\ http.details \in ValidationMessages
endsInNotFound == ~http.result /\ http.status = 404 /\ http.error = "NOT_FOUND"
endsInGenericFailure ==
    /\ ~http.result
    /\ http.status = 500 /\ http.error = "QUERY_FAILED"
    /\ http.details \notin ValidationMessages

dataLoadedAndHotelMatches == pc = "match" /\ hotel.hotelId = input.hotelId

positionOf(p) == CHOOSE i \in DOMAIN Positions : Positions[i] = p

\* C30: provided the data load and the narrative call each return or fail,
\* every request ends, in exactly one of four outcomes: a response object,
\* a validation failure, a not-found failure or a generic failure; once
\* the data is loaded and the hotel matches, nothing is thrown any more and
\* the request ends in a response, whatever the narrative call does. On the
\* way the handler is always at a position that has a next step, and every
\* step takes it to a later position.
C30_RequestEnds ==
    /\ <>(pc = "done")
    /\ [](pc \in Range(Positions))
    /\ [][positionOf(pc') > positionOf(pc)]_vars
    /\ [](pc = "done" =>
            Cardinality({ i \in 1..4 :
                            << endsInResponse, endsInValidationFailure,
                               endsInNotFound, endsInGenericFailure >>[i] }) = 1)
    /\ dataLoadedAndHotelMatches ~> (pc = "done" /\ endsInResponse)
    /\ []((dataLoadedAndHotelMatches
            \/ pc \in { "retrieve", "build", "llm", "apply", "trust", "return" })
              => thrown = NoError)

\* a request answered with a response after the narrative call threw
C30_Witness ==
    /\ pc = "done"
    /\ endsInResponse
    /\ dataReads = 1
    /\ llmCalls = 1
    /\ llmOutcome.kind = "throws"

====
